---- MODULE Spec2Model ----
(***************************************************************************)
(* Campus events application: the month calendar (CalendarPage), the       *)
(* dashboard (Home) with its search / tag / time filters, the event        *)
(* creation form (CreateEventPage), the /api/events routes with the events *)
(* table behind them, and the password authentication module.              *)
(*                                                                         *)
(* A JavaScript Date is an instant.  It is kept here as the UTC day number *)
(* (days since 1970-01-01) and the millisecond of that UTC day; the local  *)
(* getters and setters of Date go through the viewer's timezone offset.    *)
(* The timezone has a fixed offset (no daylight-saving transitions).       *)
(***************************************************************************)
EXTENDS Integers, Sequences, FiniteSets, TLC

VARIABLES
    now,                \* the wall clock: what `new Date()` returns
    \* ---- CalendarPage (src/app/calendar/page.tsx:50-485)
    DEFAULT_EVENTS,     \* module constant, computed from the clock at load
    currentDate,
    selectedDate,
    calendarEvents,     \* CalendarPage's `events` state
    storedEvents,       \* localStorage["events"]: NULL or a parsed list
    \* ---- Home (src/app/calendar/page.tsx:580-793)
    selectedTimeFilter,
    selectedTagFilter,
    searchQuery,
    events,
    isLoading,
    issued,             \* fetches of /api/events?status=scheduled started so far
    pending,            \* those still in flight (their numbers)
    answers,            \* the responses on their way back, by fetch number
    \* ---- CreateEventPage (src/app/events/create/page.tsx:27-373)
    formData,
    errors,
    isSubmitting,
    request,            \* the body of the POST /api/events in flight, or NULL
    reply,              \* the response to that POST on its way back, or NULL
    route,              \* "create" or "/" after router.push("/")
    \* ---- the API routes (src/app/events/create/page.tsx:376-465,
    \*      src/unnamed/part_002:1-180) and the events table behind them
    configured,         \* isSupabaseConfigured()
    table,              \* the rows of the events table
    exchange,           \* the last request an API route answered, with its answer
    \* ---- authentication (src/unnamed/part_000:1-103)
    eventPasswords,     \* process.env.NEXT_PUBLIC_EVENT_PASSWORDS
    authStorage,        \* localStorage's two keys of the module, or NoWindow
    authCalls,          \* the passwords of the authenticate calls awaiting the hash
    authReturned        \* the last authenticate call that returned, with its result

calendarVars == <<DEFAULT_EVENTS, currentDate, selectedDate, calendarEvents, storedEvents>>
homeVars ==
    <<selectedTimeFilter, selectedTagFilter, searchQuery, events, isLoading, issued, pending,
      answers>>
formVars == <<formData, errors, isSubmitting, request, reply, route>>
apiVars == <<configured, table, exchange>>
authVars == <<eventPasswords, authStorage, authCalls, authReturned>>
vars == <<now, calendarVars, homeVars, formVars, apiVars, authVars>>

NULL == [null |-> TRUE]

(***************************************************************************)
(* Bounds of the model.                                                    *)
(***************************************************************************)
FirstYear == 2023          \* months the calendar may be navigated to
LastYear == 2025
ClockSpanDays == 7         \* the clock ranges over this many days
MaxStored == 2             \* events in localStorage["events"]
MaxEvents == 2             \* events in a response of GET /api/events
MaxFetches == 2            \* fetches the dashboard starts
MaxFormTags == 2           \* tags of availableTags the user toggles
MaxRows == 2               \* rows of the events table
TimezoneOffsetMinutes == 300   \* Date.getTimezoneOffset(): UTC minus local

(***************************************************************************)
(* Dates: ECMAScript's day and time arithmetic.                            *)
(***************************************************************************)
MsPerDay == 24 * 60 * 60 * 1000

MsOf(h, mi, s, ms) == ((h * 60 + mi) * 60 + s) * 1000 + ms

IsLeapYear(y) == (y % 4 = 0 /\ y % 100 # 0) \/ y % 400 = 0

DayFromYear(y) ==
    365 * (y - 1970) + ((y - 1969) \div 4) - ((y - 1901) \div 100) + ((y - 1601) \div 400)

\* day of the year on which month m (0..11) starts; m = 12 is the year's end
MonthStartTable == <<0, 31, 59, 90, 120, 151, 181, 212, 243, 273, 304, 334, 365>>

MonthStart(y, m) ==
    MonthStartTable[m + 1] + (IF m >= 2 /\ IsLeapYear(y) THEN 1 ELSE 0)

\* MakeDay: month and date may lie outside their ranges and are carried over
MakeDay(y, m, d) ==
    LET ym == y + (m \div 12)
        mn == m % 12
    IN  DayFromYear(ym) + MonthStart(ym, mn) + d - 1

\* YearFromTime, MonthFromTime, DateFromTime of a day number
CivilOf(day) ==
    LET y == CHOOSE y \in (FirstYear - 2)..(LastYear + 2) :
                 DayFromYear(y) <= day /\ day < DayFromYear(y + 1)
        doy == day - DayFromYear(y)
        m == CHOOSE m \in 0..11 : MonthStart(y, m) <= doy /\ doy < MonthStart(y, m + 1)
    IN  [y |-> y, m |-> m, d |-> doy - MonthStart(y, m) + 1]

\* the same, tabulated once over the days the model can reach
Civil ==
    [day \in DayFromYear(FirstYear - 2)..(DayFromYear(LastYear + 3) - 1) |-> CivilOf(day)]
      @@ <<>>

YearFromDay(day) == Civil[day].y
MonthFromDay(day) == Civil[day].m
DateFromDay(day) == Civil[day].d

WeekDay(day) == (day + 4) % 7      \* 1970-01-01 was a Thursday

Instant(day, ms) == [day |-> day + (ms \div MsPerDay), ms |-> ms % MsPerDay]

TzMs == TimezoneOffsetMinutes * 60000

LocalDay(d) == Instant(d.day, d.ms - TzMs).day
LocalMs(d) == Instant(d.day, d.ms - TzMs).ms
FromLocal(lday, lms) == Instant(lday, lms + TzMs)

getFullYear(d) == YearFromDay(LocalDay(d))
getMonth(d) == MonthFromDay(LocalDay(d))
getDate(d) == DateFromDay(LocalDay(d))
getDay(d) == WeekDay(LocalDay(d))
getHours(d) == LocalMs(d) \div (60 * 60 * 1000)

\* new Date(year, month, date): local midnight
NewDate(y, m, d) == FromLocal(MakeDay(y, m, d), 0)
setDate(d, n) == FromLocal(MakeDay(getFullYear(d), getMonth(d), n), LocalMs(d))
setMonth(d, m) == FromLocal(MakeDay(getFullYear(d), m, getDate(d)), LocalMs(d))
setHours(d, h, mi, s, ms) == FromLocal(LocalDay(d), MsOf(h, mi, s, ms))

DateLT(a, b) == a.day < b.day \/ (a.day = b.day /\ a.ms < b.ms)
DateLE(a, b) == a.day < b.day \/ (a.day = b.day /\ a.ms <= b.ms)

\* Date.prototype.toISOString and new Date(isoString): the UTC fields
toISOString(d) ==
    [y |-> YearFromDay(d.day), mo |-> MonthFromDay(d.day) + 1,
     d |-> DateFromDay(d.day), ms |-> d.ms]
ParseISO(s) == [day |-> MakeDay(s.y, s.mo - 1, s.d), ms |-> s.ms]

(***************************************************************************)
(* Strings are sequences of one-character strings.                         *)
(***************************************************************************)
DigitChar(n) == <<"0", "1", "2", "3", "4", "5", "6", "7", "8", "9">>[n + 1]

RECURSIVE NumberToString(_)
NumberToString(n) ==
    IF n < 10 THEN <<DigitChar(n)>>
    ELSE Append(NumberToString(n \div 10), DigitChar(n % 10))

RECURSIVE padStart(_, _, _)
padStart(s, len, fill) ==
    IF Len(s) >= len THEN s ELSE padStart(<<fill>> \o s, len, fill)

\* variant: the key taken from the UTC fields (toISOString().slice(0, 10))
formatDateKey_utc(date) ==
    NumberToString(YearFromDay(date.day)) \o <<"-">>
      \o padStart(NumberToString(MonthFromDay(date.day) + 1), 2, "0") \o <<"-">>
      \o padStart(NumberToString(DateFromDay(date.day)), 2, "0")

formatDateKey(date) ==
    NumberToString(getFullYear(date)) \o <<"-">>
      \o padStart(NumberToString(getMonth(date) + 1), 2, "0") \o <<"-">>
      \o padStart(NumberToString(getDate(date)), 2, "0")

(***************************************************************************)
(* Date helpers of the pages.                                              *)
(***************************************************************************)
withTime(baseDate, hour, minute) == setHours(baseDate, hour, minute, 0, 0)

addDays(date, amount) == setDate(date, getDate(date) + amount)

\* variant: a date already on targetDay is sent to the following week
getUpcomingDay_following(date, targetDay) ==
    LET distance == ((targetDay - getDay(date) + 6) % 7) + 1
    IN  setHours(setDate(date, getDate(date) + distance), 0, 0, 0, 0)

getUpcomingDay(date, targetDay) ==
    LET distance == (targetDay - getDay(date) + 7) % 7
    IN  setHours(setDate(date, getDate(date) + distance), 0, 0, 0, 0)

upcomingWeekendDate(clock, hour, minute) ==
    LET saturday == getUpcomingDay(clock, 6)
        target == withTime(saturday, hour, minute)
    IN  IF DateLT(target, clock)
        THEN withTime(addDays(saturday, 7), hour, minute)
        ELSE target

endOfDay(date) == setHours(date, 23, 59, 59, 999)

\* variant: the days compared are UTC days
isSameDay_utc(a, b) == a.day = b.day

isSameDay(a, b) ==
    /\ getFullYear(a) = getFullYear(b)
    /\ getMonth(a) = getMonth(b)
    /\ getDate(a) = getDate(b)

(***************************************************************************)
(* Event rows.  starts_at / ends_at are ISO-8601 strings (UTC fields).     *)
(***************************************************************************)
EventRow(id, title, club, starts_at, ends_at, location, tags, current_attendees) ==
    [id |-> id, title |-> title, club |-> club, starts_at |-> starts_at,
     ends_at |-> ends_at, location |-> location, tags |-> tags,
     current_attendees |-> current_attendees]

HackathonKickoff == <<"H", "a", "c", "k", "a", "t", "h", "o", "n", " ", "K", "i", "c", "k", "o", "f", "f">>
TechInnovators == <<"T", "e", "c", "h", " ", "I", "n", "n", "o", "v", "a", "t", "o", "r", "s">>
EveningStudySession == <<"E", "v", "e", "n", "i", "n", "g", " ", "S", "t", "u", "d", "y", " ", "S", "e", "s", "s", "i", "o", "n">>
AcademicSuccessCenter == <<"A", "c", "a", "d", "e", "m", "i", "c", " ", "S", "u", "c", "c", "e", "s", "s", " ", "C", "e", "n", "t", "e", "r">>
SaturdayBrunchSocial == <<"S", "a", "t", "u", "r", "d", "a", "y", " ", "B", "r", "u", "n", "c", "h", " ", "S", "o", "c", "i", "a", "l">>
CampusLife == <<"C", "a", "m", "p", "u", "s", " ", "L", "i", "f", "e">>
InnovationHub == <<"I", "n", "n", "o", "v", "a", "t", "i", "o", "n", " ", "H", "u", "b">>
LibraryCommons == <<"L", "i", "b", "r", "a", "r", "y", " ", "C", "o", "m", "m", "o", "n", "s">>
StudentUnionLawn == <<"S", "t", "u", "d", "e", "n", "t", " ", "U", "n", "i", "o", "n", " ", "L", "a", "w", "n">>
BrunchSocial == <<"B", "r", "u", "n", "c", "h", " ", "S", "o", "c", "i", "a", "l">>

\* DEFAULT_EVENTS as computed when the module is loaded at instant `today`
DefaultEvents(today) ==
    << EventRow("1", HackathonKickoff, TechInnovators,
                toISOString(withTime(today, 10, 0)), toISOString(withTime(today, 14, 0)),
                InnovationHub, <<"tech", "career", "networking">>, 48),
       EventRow("2", EveningStudySession, AcademicSuccessCenter,
                toISOString(withTime(today, 19, 0)), toISOString(withTime(today, 21, 0)),
                LibraryCommons, <<"study">>, 23),
       EventRow("3", SaturdayBrunchSocial, CampusLife,
                toISOString(upcomingWeekendDate(today, 11, 0)),
                toISOString(upcomingWeekendDate(today, 13, 0)),
                StudentUnionLawn, <<"food", "social">>, 67) >>

(***************************************************************************)
(* Inputs: the clock's values and the events other code may have stored.   *)
(***************************************************************************)
ClockStart == MakeDay(2024, 5, 26)          \* Wednesday 2024-06-26, local

LocalAt(lday, h, mi) == FromLocal(lday, MsOf(h, mi, 0, 0))

ClockDays == {ClockStart + i : i \in 0..(ClockSpanDays - 1)}

June(n) == MakeDay(2024, 5, n)

StoredUniverse ==
    { \* three local days, 06-28 10:00 to 06-30 12:00
      EventRow("101", HackathonKickoff, TechInnovators,
               toISOString(LocalAt(June(28), 10, 0)), toISOString(LocalAt(June(30), 12, 0)),
               InnovationHub, <<"tech", "career">>, 5),
      \* no end
      EventRow("102", BrunchSocial, CampusLife,
               toISOString(LocalAt(June(29), 19, 0)), NULL,
               StudentUnionLawn, <<"food", "social">>, 0),
      \* late evening: the UTC day is the next one; ends the same local day
      EventRow("103", EveningStudySession, AcademicSuccessCenter,
               toISOString(LocalAt(June(28), 23, 0)), toISOString(LocalAt(June(28), 23, 30)),
               LibraryCommons, <<"study">>, 12),
      \* an id that DEFAULT_EVENTS already uses; starts 07-01 00:00
      EventRow("2", SaturdayBrunchSocial, CampusLife,
               toISOString(LocalAt(June(31), 0, 0)), toISOString(LocalAt(June(31), 17, 0)),
               StudentUnionLawn, <<"social">>, 1) }

SeqsUpTo(S, n) == UNION {[1..k -> S] : k \in 0..n}

CORRUPT == [corrupt |-> TRUE]               \* a stored value JSON.parse rejects

\* localStorage["events"]: absent, unparsable, or the JSON of a list
StoredChoices ==
    {NULL, CORRUPT} \cup {[json |-> l] : l \in SeqsUpTo(StoredUniverse, MaxStored)}

(***************************************************************************)
(* CalendarPage.                                                           *)
(***************************************************************************)
\* variant: the loop stops before endDate (current < endDate)
RECURSIVE calendarDaysLoop_exclusive(_, _, _)
calendarDaysLoop_exclusive(current, endDate, days) ==
    IF DateLT(current, endDate)
    THEN calendarDaysLoop_exclusive(setDate(current, getDate(current) + 1), endDate,
                                    Append(days, current))
    ELSE days

RECURSIVE calendarDaysLoop(_, _, _)
calendarDaysLoop(current, endDate, days) ==
    IF DateLE(current, endDate)
    THEN calendarDaysLoop(setDate(current, getDate(current) + 1), endDate,
                          Append(days, current))
    ELSE days

calendarDays(date) ==
    LET year == getFullYear(date)
        month == getMonth(date)
        firstDay == NewDate(year, month, 1)
        lastDay == NewDate(year, month + 1, 0)
        startDate == setDate(firstDay, getDate(firstDay) - getDay(firstDay))
        endDate == setDate(lastDay, getDate(lastDay) + (6 - getDay(lastDay)))
    IN  calendarDaysLoop(startDate, endDate, <<>>)

\* variant: a bucket is kept sorted by start time
RECURSIVE eventsByDateLoop_sorted(_, _, _)
eventsByDateLoop_sorted(list, i, map) ==
    IF i > Len(list) THEN map
    ELSE LET event == list[i]
             eventDate == ParseISO(event.starts_at)
             dateKey == formatDateKey(eventDate)
             withKey == IF dateKey \in DOMAIN map THEN map ELSE map @@ (dateKey :> <<>>)
             NotLater(e) == DateLE(ParseISO(e.starts_at), eventDate)
             Later(e) == ~NotLater(e)
         IN  eventsByDateLoop_sorted(list, i + 1,
                 [withKey EXCEPT ![dateKey] =
                     SelectSeq(@, NotLater) \o <<event>> \o SelectSeq(@, Later)])

RECURSIVE eventsByDateLoop(_, _, _)
eventsByDateLoop(list, i, map) ==
    IF i > Len(list) THEN map
    ELSE LET event == list[i]
             eventDate == ParseISO(event.starts_at)
             dateKey == formatDateKey(eventDate)
             withKey == IF dateKey \in DOMAIN map THEN map ELSE map @@ (dateKey :> <<>>)
         IN  eventsByDateLoop(list, i + 1,
                              [withKey EXCEPT ![dateKey] = Append(@, event)])

EmptyMap == [k \in {} |-> <<>>]

eventsByDate(list) == eventsByDateLoop(list, 1, EmptyMap)

\* loadEvents of CalendarPage: on mount, on focus, on becoming visible
CalendarLoadEvents ==
    /\ IF storedEvents = NULL \/ storedEvents = CORRUPT
       THEN UNCHANGED calendarEvents
       ELSE LET defaultIds == {DEFAULT_EVENTS[i].id : i \in DOMAIN DEFAULT_EVENTS}
                parsedEvents == storedEvents.json
                NotDefault(e) == e.id \notin defaultIds
            IN  calendarEvents' = DEFAULT_EVENTS \o SelectSeq(parsedEvents, NotDefault)
    /\ UNCHANGED <<now, DEFAULT_EVENTS, currentDate, selectedDate, storedEvents>>
    /\ UNCHANGED <<homeVars, formVars, apiVars, authVars>>

InYears(d) == getFullYear(d) \in FirstYear..LastYear

navigateMonth(direction) ==
    /\ LET newDate == IF direction = "prev"
                      THEN setMonth(currentDate, getMonth(currentDate) - 1)
                      ELSE setMonth(currentDate, getMonth(currentDate) + 1)
       IN  /\ InYears(newDate)
           /\ currentDate' = newDate
    /\ UNCHANGED <<now, DEFAULT_EVENTS, selectedDate, calendarEvents, storedEvents>>
    /\ UNCHANGED <<homeVars, formVars, apiVars, authVars>>

goToToday ==
    /\ currentDate' = now
    /\ selectedDate' = now
    /\ UNCHANGED <<now, DEFAULT_EVENTS, calendarEvents, storedEvents>>
    /\ UNCHANGED <<homeVars, formVars, apiVars, authVars>>

(***************************************************************************)
(* Home: the dashboard and its filters.                                    *)
(***************************************************************************)
timeFilters == <<"All", "Today", "Tonight", "This Weekend">>
tagFilters == <<"All", "tech", "food", "games", "study", "social", "career", "networking">>

Range(seq) == {seq[i] : i \in DOMAIN seq}

\* String.prototype.toLowerCase on the letters A..Z
LowerOfUpper ==
    ("A" :> "a") @@ ("B" :> "b") @@ ("C" :> "c") @@ ("D" :> "d") @@ ("E" :> "e") @@
    ("F" :> "f") @@ ("G" :> "g") @@ ("H" :> "h") @@ ("I" :> "i") @@ ("J" :> "j") @@
    ("K" :> "k") @@ ("L" :> "l") @@ ("M" :> "m") @@ ("N" :> "n") @@ ("O" :> "o") @@
    ("P" :> "p") @@ ("Q" :> "q") @@ ("R" :> "r") @@ ("S" :> "s") @@ ("T" :> "t") @@
    ("U" :> "u") @@ ("V" :> "v") @@ ("W" :> "w") @@ ("X" :> "x") @@ ("Y" :> "y") @@
    ("Z" :> "z")

toLowerCase(s) ==
    [i \in DOMAIN s |-> IF s[i] \in DOMAIN LowerOfUpper THEN LowerOfUpper[s[i]] ELSE s[i]]

\* String.prototype.includes
includes(s, part) ==
    \E i \in 0..(Len(s) - Len(part)) : SubSeq(s, i + 1, i + Len(part)) = part

\* variant: the location is searched as well
matchesSearchQuery_location(event, query) ==
    IF query = <<>> THEN TRUE
    ELSE LET normalizedQuery == toLowerCase(query)
         IN  \/ includes(toLowerCase(event.title), normalizedQuery)
             \/ includes(toLowerCase(event.club), normalizedQuery)
             \/ includes(toLowerCase(event.location), normalizedQuery)

matchesSearchQuery(event, query) ==
    IF query = <<>> THEN TRUE
    ELSE LET normalizedQuery == toLowerCase(query)
         IN  \/ includes(toLowerCase(event.title), normalizedQuery)
             \/ includes(toLowerCase(event.club), normalizedQuery)

\* variant: "Tonight" starts after 17:59 (getHours() > 17)
matchesTimeFilter_after17(event, filter, clock) ==
    IF filter = "All" THEN TRUE
    ELSE LET starts == ParseISO(event.starts_at)
         IN  IF filter = "Today" THEN isSameDay(starts, clock)
             ELSE IF filter = "Tonight"
             THEN isSameDay(starts, clock) /\ getHours(starts) > 17
             ELSE IF filter = "This Weekend"
             THEN LET weekendStart == getUpcomingDay(clock, 6)
                      weekendEnd == endOfDay(addDays(weekendStart, 1))
                  IN  DateLE(weekendStart, starts) /\ DateLE(starts, weekendEnd)
             ELSE TRUE

\* variant: the weekend ends with its Saturday
matchesTimeFilter_saturdayOnly(event, filter, clock) ==
    IF filter = "All" THEN TRUE
    ELSE LET starts == ParseISO(event.starts_at)
         IN  IF filter = "Today" THEN isSameDay(starts, clock)
             ELSE IF filter = "Tonight"
             THEN isSameDay(starts, clock) /\ getHours(starts) >= 17
             ELSE IF filter = "This Weekend"
             THEN LET weekendStart == getUpcomingDay(clock, 6)
                      weekendEnd == endOfDay(weekendStart)
                  IN  DateLE(weekendStart, starts) /\ DateLE(starts, weekendEnd)
             ELSE TRUE

\* variant: on a Sunday the weekend is the one that began the day before
matchesTimeFilter_currentWeekend(event, filter, clock) ==
    IF filter = "All" THEN TRUE
    ELSE LET starts == ParseISO(event.starts_at)
         IN  IF filter = "Today" THEN isSameDay(starts, clock)
             ELSE IF filter = "Tonight"
             THEN isSameDay(starts, clock) /\ getHours(starts) >= 17
             ELSE IF filter = "This Weekend"
             THEN LET weekendStart ==
                          IF getDay(clock) = 0 THEN setHours(addDays(clock, -1), 0, 0, 0, 0)
                          ELSE getUpcomingDay(clock, 6)
                      weekendEnd == endOfDay(addDays(weekendStart, 1))
                  IN  DateLE(weekendStart, starts) /\ DateLE(starts, weekendEnd)
             ELSE TRUE

\* `clock` is the `new Date()` read inside the call
matchesTimeFilter(event, filter, clock) ==
    IF filter = "All" THEN TRUE
    ELSE LET starts == ParseISO(event.starts_at)
         IN  IF filter = "Today" THEN isSameDay(starts, clock)
             ELSE IF filter = "Tonight"
             THEN isSameDay(starts, clock) /\ getHours(starts) >= 17
             ELSE IF filter = "This Weekend"
             THEN LET weekendStart == getUpcomingDay(clock, 6)
                      weekendEnd == endOfDay(addDays(weekendStart, 1))
                  IN  DateLE(weekendStart, starts) /\ DateLE(starts, weekendEnd)
             ELSE TRUE

matchesTag(event, tag) == tag = "All" \/ tag \in Range(event.tags)

\* variant: the tag selection is not applied
filteredEvents_noTag(list, query, tag, filter, clock) ==
    LET Keep(event) ==
            /\ matchesSearchQuery(event, query)
            /\ matchesTimeFilter(event, filter, clock)
    IN  SelectSeq(list, Keep)

filteredEvents(list, query, tag, filter, clock) ==
    LET Keep(event) ==
            /\ matchesSearchQuery(event, query)
            /\ matchesTag(event, tag)
            /\ matchesTimeFilter(event, filter, clock)
    IN  SelectSeq(list, Keep)

CalendarAndFormUnchanged == UNCHANGED <<calendarVars, formVars, apiVars, authVars>>

setSelectedTimeFilter(filter) ==
    /\ selectedTimeFilter' = filter
    /\ UNCHANGED <<now, selectedTagFilter, searchQuery, events, isLoading, issued, pending,
                   answers>>
    /\ CalendarAndFormUnchanged

setSelectedTagFilter(tag) ==
    /\ selectedTagFilter' = tag
    /\ UNCHANGED <<now, selectedTimeFilter, searchQuery, events, isLoading, issued, pending,
                   answers>>
    /\ CalendarAndFormUnchanged

handleSearchChange(value) ==
    /\ searchQuery' = value
    /\ UNCHANGED <<now, selectedTimeFilter, selectedTagFilter, events, isLoading, issued, pending,
                   answers>>
    /\ CalendarAndFormUnchanged

\* loadEvents up to its first await: on focus or on becoming visible
HomeLoadEventsStart ==
    /\ issued < MaxFetches
    /\ isLoading' = TRUE
    /\ issued' = issued + 1
    /\ pending' = pending \cup {issued + 1}
    /\ UNCHANGED <<now, selectedTimeFilter, selectedTagFilter, searchQuery, events, answers>>
    /\ CalendarAndFormUnchanged

\* the responses in flight other than that of fetch r
Without(inFlight, r) == [x \in DOMAIN inFlight \ {r} |-> inFlight[x]]

NoAnswers == [x \in {} |-> NULL]

\* variant: a response is dropped when a fetch started later has resolved
HomeLoadEventsResolve_latestWins(r, response) ==
    /\ r \in pending
    /\ answers' = Without(answers, r)
    /\ IF \E later \in (r + 1)..issued : later \notin pending THEN events' = events
       ELSE IF response.thrown THEN events' = <<>>
       ELSE IF response.ok /\ response.data # NULL THEN events' = response.data.rows
       ELSE events' = <<>>
    /\ isLoading' = FALSE
    /\ pending' = pending \ {r}
    /\ UNCHANGED <<now, selectedTimeFilter, selectedTagFilter, searchQuery, issued>>
    /\ CalendarAndFormUnchanged

\* variant: a failed fetch leaves the list as it was
HomeLoadEventsResolve_keepOnError(r, response) ==
    /\ r \in pending
    /\ answers' = Without(answers, r)
    /\ IF response.thrown THEN events' = events
       ELSE IF response.ok /\ response.data # NULL THEN events' = response.data.rows
       ELSE events' = events
    /\ isLoading' = FALSE
    /\ pending' = pending \ {r}
    /\ UNCHANGED <<now, selectedTimeFilter, selectedTagFilter, searchQuery, issued>>
    /\ CalendarAndFormUnchanged

\* the rest of loadEvents, once the response of fetch r is there
HomeLoadEventsResolve(r, response) ==
    /\ r \in pending
    /\ answers' = Without(answers, r)
    /\ IF response.thrown THEN events' = <<>>
       ELSE IF response.ok /\ response.data # NULL THEN events' = response.data.rows
       ELSE events' = <<>>
    /\ isLoading' = FALSE
    /\ pending' = pending \ {r}
    /\ UNCHANGED <<now, selectedTimeFilter, selectedTagFilter, searchQuery, issued>>
    /\ CalendarAndFormUnchanged

\* time passes
Tick(clock) ==
    /\ \E t \in clock : DateLT(now, t) /\ now' = t
    /\ UNCHANGED <<calendarVars, homeVars, formVars, apiVars, authVars>>

(***************************************************************************)
(* Inputs of the dashboard: responses of GET /api/events, search texts.    *)
(***************************************************************************)
HomeUniverse ==
    { EventRow("h1", HackathonKickoff, TechInnovators,
               toISOString(LocalAt(June(28), 10, 0)), toISOString(LocalAt(June(30), 12, 0)),
               InnovationHub, <<"tech", "career">>, 5),
      EventRow("h2", BrunchSocial, CampusLife,
               toISOString(LocalAt(June(29), 11, 0)), NULL,
               StudentUnionLawn, <<"food", "social">>, 0),
      EventRow("h3", EveningStudySession, AcademicSuccessCenter,
               toISOString(LocalAt(June(28), 19, 0)), toISOString(LocalAt(June(28), 21, 0)),
               LibraryCommons, <<"study", "tech">>, 12) }

\* one more, late on a Sunday, for the time filter
TimeUniverse ==
    HomeUniverse \cup
    { EventRow("h4", SaturdayBrunchSocial, CampusLife,
               toISOString(LocalAt(June(30), 23, 30)), NULL,
               StudentUnionLawn, <<"social">>, 1) }

Responses(universe) ==
    {[thrown |-> TRUE, ok |-> FALSE, data |-> NULL],       \* fetch or json() threw
     [thrown |-> FALSE, ok |-> FALSE, data |-> NULL],      \* 500 {error}
     [thrown |-> FALSE, ok |-> TRUE, data |-> NULL]}       \* 200 without data
      \cup {[thrown |-> FALSE, ok |-> TRUE, data |-> [rows |-> l]] :
               l \in SeqsUpTo(universe, MaxEvents)}

Queries ==
    { <<>>, <<"h", "a", "c", "k">>, <<"L", "I", "F", "E">>, <<"h", "u", "b">>,
      <<"f", "o", "o", "d">> }

ClockTimes == {MsOf(0, 0, 0, 0), MsOf(10, 0, 0, 0), MsOf(23, 59, 59, 999)}

HomeClock == {FromLocal(d, t) : d \in ClockDays, t \in ClockTimes}

(***************************************************************************)
(* CreateEventPage: the creation form.                                     *)
(*                                                                         *)
(* The value of a datetime-local input is "" (NULL here) or the local      *)
(* fields [y, mo, d, h, mi] of "YYYY-MM-DDTHH:mm".                         *)
(***************************************************************************)
availableTags == <<"tech", "food", "games", "study", "social", "career", "networking">>

InvalidDate == [invalid |-> TRUE]

\* new Date(value) of a datetime-local value: read as local time
ParseLocal(value) ==
    IF value = NULL THEN InvalidDate
    ELSE FromLocal(MakeDay(value.y, value.mo - 1, value.d), MsOf(value.h, value.mi, 0, 0))

\* String.prototype.trim
RECURSIVE trimStart(_)
trimStart(s) == IF s # <<>> /\ Head(s) = " " THEN trimStart(Tail(s)) ELSE s

RECURSIVE trimEnd(_)
trimEnd(s) ==
    IF s # <<>> /\ s[Len(s)] = " " THEN trimEnd(SubSeq(s, 1, Len(s) - 1)) ELSE s

trim(s) == trimEnd(trimStart(s))

NoError == ""          \* a key that is absent or undefined

NoErrors ==
    [title |-> NoError, club |-> NoError, starts_at |-> NoError, ends_at |-> NoError,
     location |-> NoError, tags |-> NoError]

\* variant: an end equal to the start is let through (endDate < startDate)
newErrors_endBefore(data, clock) ==
    [title |-> IF trim(data.title) = <<>> THEN "Event title is required" ELSE NoError,
     club |-> IF trim(data.club) = <<>> THEN "Club name is required" ELSE NoError,
     starts_at |->
        IF data.starts_at = NULL THEN "Start date and time is required"
        ELSE IF DateLT(ParseLocal(data.starts_at), clock)
             THEN "Start time must be in the future"
             ELSE NoError,
     ends_at |->
        IF data.ends_at # NULL
             /\ ParseLocal(data.starts_at) # InvalidDate
             /\ DateLT(ParseLocal(data.ends_at), ParseLocal(data.starts_at))
        THEN "End time must be after start time"
        ELSE NoError,
     location |-> IF trim(data.location) = <<>> THEN "Location is required" ELSE NoError,
     tags |-> IF Len(data.tags) = 0 THEN "At least one tag is required" ELSE NoError]

\* variant: the title is tested without trim() (!formData.title)
newErrors_untrimmed(data, clock) ==
    [title |-> IF data.title = <<>> THEN "Event title is required" ELSE NoError,
     club |-> IF trim(data.club) = <<>> THEN "Club name is required" ELSE NoError,
     starts_at |->
        IF data.starts_at = NULL THEN "Start date and time is required"
        ELSE IF DateLT(ParseLocal(data.starts_at), clock)
             THEN "Start time must be in the future"
             ELSE NoError,
     ends_at |->
        IF data.ends_at # NULL
             /\ ParseLocal(data.starts_at) # InvalidDate
             /\ DateLE(ParseLocal(data.ends_at), ParseLocal(data.starts_at))
        THEN "End time must be after start time"
        ELSE NoError,
     location |-> IF trim(data.location) = <<>> THEN "Location is required" ELSE NoError,
     tags |-> IF Len(data.tags) = 0 THEN "At least one tag is required" ELSE NoError]

\* the newErrors object validateForm builds; `clock` is its `new Date()`.
\* A comparison with an Invalid Date is false.
newErrors(data, clock) ==
    [title |-> IF trim(data.title) = <<>> THEN "Event title is required" ELSE NoError,
     club |-> IF trim(data.club) = <<>> THEN "Club name is required" ELSE NoError,
     starts_at |->
        IF data.starts_at = NULL THEN "Start date and time is required"
        ELSE IF DateLT(ParseLocal(data.starts_at), clock)
             THEN "Start time must be in the future"
             ELSE NoError,
     ends_at |->
        IF data.ends_at # NULL
             /\ ParseLocal(data.starts_at) # InvalidDate
             /\ DateLE(ParseLocal(data.ends_at), ParseLocal(data.starts_at))
        THEN "End time must be after start time"
        ELSE NoError,
     location |-> IF trim(data.location) = <<>> THEN "Location is required" ELSE NoError,
     tags |-> IF Len(data.tags) = 0 THEN "At least one tag is required" ELSE NoError]

\* validateForm's result: Object.keys(newErrors).length === 0
validateForm(data, clock) == newErrors(data, clock) = NoErrors

\* the body handleSubmit sends
eventData(data) ==
    [title |-> trim(data.title),
     club |-> trim(data.club),
     starts_at |-> toISOString(ParseLocal(data.starts_at)),
     ends_at |-> IF data.ends_at # NULL THEN toISOString(ParseLocal(data.ends_at)) ELSE NULL,
     location |-> trim(data.location),
     tags |-> data.tags,
     current_attendees |-> data.current_attendees]

CalendarAndHomeUnchanged == UNCHANGED <<calendarVars, homeVars, apiVars, authVars>>

\* the text and datetime-local inputs
handleInputChange(name, value) ==
    /\ route = "create"
    /\ formData' = [formData EXCEPT ![name] = value]
    /\ errors' = IF errors[name] # NoError THEN [errors EXCEPT ![name] = NoError] ELSE errors
    /\ UNCHANGED <<now, isSubmitting, request, reply, route>>
    /\ CalendarAndHomeUnchanged

handleTagToggle(tag) ==
    /\ route = "create"
    /\ formData' =
          [formData EXCEPT !.tags =
              IF tag \in Range(formData.tags)
              THEN SelectSeq(formData.tags, LAMBDA t : t # tag)
              ELSE Append(formData.tags, tag)]
    /\ UNCHANGED <<now, errors, isSubmitting, request, reply, route>>
    /\ CalendarAndHomeUnchanged

NaN == [nan |-> TRUE]

Max(a, b) == IF a >= b THEN a ELSE b

\* the attendee input: Math.max(0, parseInt(e.target.value) || 0);
\* `parsed` is what parseInt returns, a number [num |-> n] or NaN
handleAttendeesChange(parsed) ==
    /\ route = "create"
    /\ formData' =
          [formData EXCEPT !.current_attendees =
              Max(0, IF parsed = NaN \/ parsed.num = 0 THEN 0 ELSE parsed.num)]
    /\ UNCHANGED <<now, errors, isSubmitting, request, reply, route>>
    /\ CalendarAndHomeUnchanged

\* handleSubmit up to its await; the submit button is disabled while
\* isSubmitting
handleSubmit ==
    /\ route = "create"
    /\ ~isSubmitting
    /\ errors' = newErrors(formData, now)
    /\ IF ~validateForm(formData, now)
       THEN UNCHANGED <<isSubmitting, request>>
       ELSE /\ isSubmitting' = TRUE
            /\ request' = eventData(formData)
    /\ UNCHANGED <<now, formData, reply, route>>
    /\ CalendarAndHomeUnchanged

\* variant: router.push("/") sits in the finally block
handleSubmitResolve_pushAlways(response) ==
    /\ route = "create"
    /\ isSubmitting
    /\ route' = "/"
    /\ isSubmitting' = FALSE
    /\ request' = NULL
    /\ reply' = NULL
    /\ UNCHANGED <<now, formData, errors>>
    /\ CalendarAndHomeUnchanged

\* the rest of handleSubmit, once the POST is answered or has failed
handleSubmitResolve(response) ==
    /\ route = "create"
    /\ isSubmitting
    /\ route' = IF ~response.thrown /\ response.ok THEN "/" ELSE route
    /\ isSubmitting' = FALSE
    /\ request' = NULL
    /\ reply' = NULL
    /\ UNCHANGED <<now, formData, errors>>
    /\ CalendarAndHomeUnchanged

(***************************************************************************)
(* The API routes and the events table.                                    *)
(*                                                                         *)
(* A JSON value is a record with one field naming its kind: NULL,          *)
(* undefined (a property the body lacks), [str |-> text], [iso |-> an      *)
(* ISO-8601 date-time string], [num |-> n], [arr |-> a list of texts].     *)
(***************************************************************************)
undefined == [undefined |-> TRUE]
Str(s) == [str |-> s]
Iso(s) == [iso |-> s]
Num(n) == [num |-> n]
Arr(l) == [arr |-> l]

\* !v : undefined, null, "" and 0 are falsy
Falsy(v) ==
    \/ "undefined" \in DOMAIN v
    \/ "null" \in DOMAIN v
    \/ "str" \in DOMAIN v /\ Len(v.str) = 0
    \/ "num" \in DOMAIN v /\ v.num = 0

\* v || d
OrElse(v, d) == IF Falsy(v) THEN d ELSE v

\* Date.now().toString(): the milliseconds since the epoch, in decimal
DateNowToString(clock) ==
    NumberToString(clock.day * (MsPerDay \div 1000) + clock.ms \div 1000)
        \o padStart(NumberToString(clock.ms % 1000), 3, "0")

\* the ids the table hands out (gen_random_uuid()): one more than it has rows
Uuids == {<<"u", DigitChar(i)>> : i \in 1..(MaxRows + 1)}

\* what a call of the store may report instead of its result: `call` is the
\* number of the failing call within the route (0: none fails)
NoFault == [call |-> 0, message |-> ""]

MessageChars ==
    ("Invalid API key" :>
        <<"I", "n", "v", "a", "l", "i", "d", " ", "A", "P", "I", " ", "k", "e", "y">>) @@
    ("JWT expired" :> <<"J", "W", "T", " ", "e", "x", "p", "i", "r", "e", "d">>) @@
    ("connection refused" :>
        <<"c", "o", "n", "n", "e", "c", "t", "i", "o", "n", " ",
          "r", "e", "f", "u", "s", "e", "d">>)

StoreFaults ==
    {NoFault} \cup {[call |-> 1, message |-> m] : m \in DOMAIN MessageChars}
      \cup {[call |-> 2, message |-> "connection refused"]}

\* variant: only the message of the stand-in client is recognised
NotConfiguredMessage_standInOnly(message) ==
    includes(MessageChars[message],
             <<"S", "u", "p", "a", "b", "a", "s", "e", " ", "n", "o", "t", " ",
               "c", "o", "n", "f", "i", "g", "u", "r", "e", "d">>)

\* error.message.includes('Invalid API key') || error.message.includes('JWT')
\*   || error.message.includes('Supabase not configured')
NotConfiguredMessage(message) ==
    \/ includes(MessageChars[message], MessageChars["Invalid API key"])
    \/ includes(MessageChars[message], <<"J", "W", "T">>)
    \/ includes(MessageChars[message],
                <<"S", "u", "p", "a", "b", "a", "s", "e", " ", "n", "o", "t", " ",
                  "c", "o", "n", "f", "i", "g", "u", "r", "e", "d">>)

\* an answer of a route, and the table it leaves
Answer(status, data, error, rows) ==
    [status |-> status, data |-> data, error |-> error, table |-> rows]

MissingRequiredFields == "Missing required fields: title, club, starts_at, location"

\* !body.title || !body.club || !body.starts_at || !body.location
MissingRequired(body) ==
    Falsy(body.title) \/ Falsy(body.club) \/ Falsy(body.starts_at) \/ Falsy(body.location)

\* .order('starts_at', { ascending: true }): the rows of S in an order in
\* which starts_at never decreases
OrderedByStartsAt(S) ==
    {l \in [1..Cardinality(S) -> S] :
        /\ \A i, j \in DOMAIN l : i # j => l[i] # l[j]
        /\ \A i, j \in DOMAIN l :
              i < j => DateLE(ParseISO(l[i].starts_at.iso), ParseISO(l[j].starts_at.iso))}

\* variant: the status parameter is read but not applied to the query
GET_anyStatus(statusParam, fault, order) ==
    IF ~configured THEN Answer(200, [rows |-> <<>>], NoError, table)
    ELSE IF fault.call = 1
         THEN IF NotConfiguredMessage(fault.message)
              THEN Answer(200, [rows |-> <<>>], NoError, table)
              ELSE Answer(500, NULL, fault.message, table)
         ELSE Answer(200, [rows |-> order], NoError, table)

\* GET /api/events; `order` is the order the store returns all rows in
GET(statusParam, fault, order) ==
    IF ~configured THEN Answer(200, [rows |-> <<>>], NoError, table)
    ELSE LET status == OrElse(statusParam, Str("scheduled"))
         IN  IF fault.call = 1
             THEN IF NotConfiguredMessage(fault.message)
                  THEN Answer(200, [rows |-> <<>>], NoError, table)
                  ELSE Answer(500, NULL, fault.message, table)
             ELSE Answer(200, [rows |-> SelectSeq(order, LAMBDA r : r.status = status)],
                         NoError, table)

\* variant: the status is taken from the body when it has one
\* ({ ...body, status: body.status || 'scheduled' })
postEventData_bodyStatus(body, clock) ==
    [title |-> body.title,
     club |-> body.club,
     starts_at |-> body.starts_at,
     ends_at |-> OrElse(body.ends_at, NULL),
     location |-> body.location,
     tags |-> OrElse(body.tags, Arr(<<>>)),
     current_attendees |-> OrElse(body.current_attendees, Num(0)),
     status |-> IF "status" \in DOMAIN body THEN OrElse(body.status, Str("scheduled"))
                ELSE Str("scheduled"),
     created_at |-> Iso(toISOString(clock))]

\* the eventData object POST prepares
postEventData(body, clock) ==
    [title |-> body.title,
     club |-> body.club,
     starts_at |-> body.starts_at,
     ends_at |-> OrElse(body.ends_at, NULL),
     location |-> body.location,
     tags |-> OrElse(body.tags, Arr(<<>>)),
     current_attendees |-> OrElse(body.current_attendees, Num(0)),
     status |-> Str("scheduled"),
     created_at |-> Iso(toISOString(clock))]

\* the row the table makes of an inserted object: the columns the object
\* lacks take their defaults
InsertedRow(object, uuid, clock) ==
    object @@ [id |-> Str(uuid), creator_id |-> NULL, updated_at |-> Iso(toISOString(clock))]

\* { ...eventData, id: Date.now().toString() }
MockRecord(object, clock) == object @@ [id |-> Str(DateNowToString(clock))]

\* variant: the check of the required fields comes after the fallback for a
\* backend that is not configured
POST_fallbackFirst(body, fault, uuid) ==
    LET object == postEventData(body, now)
    IN  IF ~configured THEN Answer(201, MockRecord(object, now), NoError, table)
        ELSE IF MissingRequired(body) THEN Answer(400, NULL, MissingRequiredFields, table)
        ELSE IF fault.call = 1
             THEN IF NotConfiguredMessage(fault.message)
                  THEN Answer(201, MockRecord(object, now), NoError, table)
                  ELSE Answer(500, NULL, fault.message, table)
             ELSE LET row == InsertedRow(object, uuid, now)
                  IN  Answer(201, row, NoError, table \cup {row})

\* POST /api/events; `uuid` is the id the table gives a new row
POST(body, fault, uuid) ==
    IF MissingRequired(body) THEN Answer(400, NULL, MissingRequiredFields, table)
    ELSE LET object == postEventData(body, now)
         IN  IF ~configured THEN Answer(201, MockRecord(object, now), NoError, table)
             ELSE IF fault.call = 1
                  THEN IF NotConfiguredMessage(fault.message)
                       THEN Answer(201, MockRecord(object, now), NoError, table)
                       ELSE Answer(500, NULL, fault.message, table)
                  ELSE LET row == InsertedRow(object, uuid, now)
                       IN  Answer(201, row, NoError, table \cup {row})

AuthenticationRequired == "Authentication required. Please provide creator_id."
EventNotFound == "Event not found"
OnlyEditOwn == "Unauthorized. You can only edit events you created."
OnlyDeleteOwn == "Unauthorized. You can only delete events you created."

\* .eq('id', id): the rows with that id
RowsWithId(id) == {r \in table : r.id = Str(id)}

\* PUT /api/events/:id
PUT(id, body, fault) ==
    IF MissingRequired(body) THEN Answer(400, NULL, MissingRequiredFields, table)
    ELSE IF Falsy(body.creator_id) THEN Answer(401, NULL, AuthenticationRequired, table)
    ELSE IF ~configured
         THEN Answer(200, body @@ [id |-> Str(id), updated_at |-> Iso(toISOString(now))],
                     NoError, table)
    ELSE IF fault.call = 1 THEN Answer(500, NULL, fault.message, table)
    ELSE IF RowsWithId(id) = {} THEN Answer(404, NULL, EventNotFound, table)
    ELSE LET existingEvent == CHOOSE r \in RowsWithId(id) : TRUE
             updated ==
                 [existingEvent EXCEPT
                     !.title = body.title,
                     !.club = body.club,
                     !.starts_at = body.starts_at,
                     !.ends_at = OrElse(body.ends_at, NULL),
                     !.location = body.location,
                     !.tags = OrElse(body.tags, Arr(<<>>)),
                     !.current_attendees = OrElse(body.current_attendees, Num(0)),
                     !.updated_at = Iso(toISOString(now))]
         IN  IF existingEvent.creator_id # body.creator_id
             THEN Answer(403, NULL, OnlyEditOwn, table)
             ELSE IF fault.call = 2 THEN Answer(500, NULL, fault.message, table)
             ELSE Answer(200, updated, NoError, (table \ {existingEvent}) \cup {updated})

\* DELETE /api/events/:id
DELETE(id, body, fault) ==
    IF Falsy(body.creator_id) THEN Answer(401, NULL, AuthenticationRequired, table)
    ELSE IF ~configured THEN Answer(200, [id |-> Str(id)], NoError, table)
    ELSE IF fault.call = 1 THEN Answer(500, NULL, fault.message, table)
    ELSE IF RowsWithId(id) = {} THEN Answer(404, NULL, EventNotFound, table)
    ELSE LET existingEvent == CHOOSE r \in RowsWithId(id) : TRUE
         IN  IF existingEvent.creator_id # body.creator_id
             THEN Answer(403, NULL, OnlyDeleteOwn, table)
             ELSE IF fault.call = 2 THEN Answer(500, NULL, fault.message, table)
             ELSE Answer(200, [id |-> Str(id)], NoError, table \ {existingEvent})

\* a route answers a request: the exchange (the request, what the store
\* reported, the answer) is kept, the table follows
Answered(method, id, query, body, fault, answer) ==
    /\ exchange' = [method |-> method, id |-> id, query |-> query, body |-> body,
                    fault |-> fault, status |-> answer.status, data |-> answer.data,
                    error |-> answer.error]
    /\ table' = answer.table
    /\ UNCHANGED <<now, configured, calendarVars, homeVars, formVars, authVars>>

ApiGET(statusParam, fault) ==
    \E order \in OrderedByStartsAt(table) :
        Answered("GET", NULL, statusParam, NULL, fault, GET(statusParam, fault, order))

ApiPOST(body, fault) ==
    \E uuid \in Uuids :
        /\ RowsWithId(uuid) = {}
        /\ Cardinality(POST(body, fault, uuid).table) <= MaxRows
        /\ Answered("POST", NULL, NULL, body, fault, POST(body, fault, uuid))

ApiPUT(id, body, fault) == Answered("PUT", Str(id), NULL, body, fault, PUT(id, body, fault))

ApiDELETE(id, body, fault) ==
    Answered("DELETE", Str(id), NULL, body, fault, DELETE(id, body, fault))

(***************************************************************************)
(* Authentication: a password of the configured list makes a user, whose   *)
(* id is the hash of the password; flag and id are kept in localStorage.   *)
(* Texts are JSON strings [str |-> characters]; getItem of a key that is   *)
(* absent returns NULL.                                                    *)
(***************************************************************************)
NoWindow == [nowindow |-> TRUE]         \* typeof window === 'undefined'

EmptyStorage == [ptk_event_auth |-> NULL, ptk_user_id |-> NULL]

\* String.prototype.split(sep), sep one character
RECURSIVE split(_, _)
split(s, sep) ==
    IF \E i \in DOMAIN s : s[i] = sep
    THEN LET i == CHOOSE i \in DOMAIN s : s[i] = sep /\ \A j \in 1..(i - 1) : s[j] # sep
         IN  <<SubSeq(s, 1, i - 1)>> \o split(SubSeq(s, i + 1, Len(s)), sep)
    ELSE <<s>>

getValidPasswords ==
    LET passwords == OrElse(eventPasswords, Str(<<>>)).str
    IN  SelectSeq(split(passwords, ","), LAMBDA p : Len(trim(p)) > 0)

\* variant: the password typed is compared as it is (validPass.trim() === password)
isValid_untrimmed(validPasswords, password) ==
    \E i \in DOMAIN validPasswords : trim(validPasswords[i]) = password

\* validPasswords.some(validPass => validPass.trim() === password.trim())
isValid(validPasswords, password) ==
    \E i \in DOMAIN validPasswords : trim(validPasswords[i]) = trim(password)

\* the hex SHA-256 digest of the password: kept as a text that is never
\* empty and differs for different passwords
hashPassword(password) == <<"#">> \o password

\* authenticate up to its await of hashPassword, or to its return false
authenticate(password) ==
    /\ password \notin authCalls
    /\ LET validPasswords == getValidPasswords
       IN  IF Len(validPasswords) = 0 \/ ~isValid(validPasswords, password)
           THEN /\ authReturned' = [password |-> password, result |-> FALSE]
                /\ UNCHANGED authCalls
           ELSE /\ authCalls' = authCalls \cup {password}
                /\ UNCHANGED authReturned
    /\ UNCHANGED <<eventPasswords, authStorage>>
    /\ UNCHANGED <<now, calendarVars, homeVars, formVars, apiVars>>

\* the rest of authenticate, once the hash is there
authenticateResolve(password) ==
    /\ password \in authCalls
    /\ LET userId == hashPassword(password)
       IN  authStorage' =
               IF authStorage # NoWindow
               THEN [authStorage EXCEPT !.ptk_event_auth = Str(<<"t", "r", "u", "e">>),
                                        !.ptk_user_id = Str(userId)]
               ELSE authStorage
    /\ authCalls' = authCalls \ {password}
    /\ authReturned' = [password |-> password, result |-> TRUE]
    /\ UNCHANGED <<now, eventPasswords, calendarVars, homeVars, formVars, apiVars>>

isAuthenticated ==
    IF authStorage = NoWindow THEN FALSE
    ELSE authStorage.ptk_event_auth = Str(<<"t", "r", "u", "e">>)

getCurrentUserId == IF authStorage = NoWindow THEN NULL ELSE authStorage.ptk_user_id

\* variant: only the flag is removed
logout_flagOnly ==
    /\ authStorage' =
          IF authStorage = NoWindow THEN authStorage
          ELSE [authStorage EXCEPT !.ptk_event_auth = NULL]
    /\ UNCHANGED <<now, eventPasswords, authCalls, authReturned>>
    /\ UNCHANGED <<calendarVars, homeVars, formVars, apiVars>>

logout ==
    /\ authStorage' =
          IF authStorage = NoWindow THEN authStorage
          ELSE [authStorage EXCEPT !.ptk_event_auth = NULL, !.ptk_user_id = NULL]
    /\ UNCHANGED <<now, eventPasswords, authCalls, authReturned>>
    /\ UNCHANGED <<calendarVars, homeVars, formVars, apiVars>>

canEditEvent(eventCreatorId) ==
    IF ~isAuthenticated THEN FALSE
    ELSE IF Falsy(eventCreatorId) THEN FALSE
    ELSE LET currentUserId == getCurrentUserId
         IN  currentUserId = eventCreatorId

\* no password configured, nobody logged in, no call of authenticate made
AuthIdle ==
    /\ eventPasswords = undefined
    /\ authStorage = EmptyStorage
    /\ authCalls = {}
    /\ authReturned = NULL

(***************************************************************************)
(* Initial values of the three pages (their useState initialisers).        *)
(***************************************************************************)
CalendarInit(stored) ==
    /\ DEFAULT_EVENTS = DefaultEvents(now)
    /\ currentDate = now
    /\ selectedDate = now
    /\ calendarEvents = DefaultEvents(now)
    /\ storedEvents \in stored

\* the calendar page is not the page shown
CalendarUnmounted ==
    /\ DEFAULT_EVENTS = <<>>
    /\ currentDate = NULL
    /\ selectedDate = NULL
    /\ calendarEvents = <<>>
    /\ storedEvents = NULL

HomeInit ==
    /\ selectedTimeFilter = "All"
    /\ selectedTagFilter = "All"
    /\ searchQuery = <<>>
    /\ events = <<>>
    /\ isLoading = TRUE
    /\ issued = 1                 \* the fetch started by the mount effect
    /\ pending = {1}
    /\ answers = NoAnswers

EmptyForm ==
    [title |-> <<>>, club |-> <<>>, starts_at |-> NULL, ends_at |-> NULL,
     location |-> <<>>, tags |-> <<>>, current_attendees |-> 0]

\* no API route has been called, and there is no table to speak of
ApiIdle ==
    /\ configured = FALSE
    /\ table = {}
    /\ exchange = NULL

FormInit ==
    /\ formData = EmptyForm
    /\ errors = NoErrors
    /\ isSubmitting = FALSE
    /\ request = NULL
    /\ reply = NULL
    /\ route = "create"

(***************************************************************************)
(* The calendar page, navigated: months FirstYear..LastYear.               *)
(***************************************************************************)
InitCalendar ==
    /\ now \in {LocalAt(d, 10, 0) : d \in ClockDays}
    /\ CalendarInit({NULL})
    /\ HomeInit
    /\ FormInit
    /\ ApiIdle
    /\ AuthIdle

NextCalendar ==
    \/ navigateMonth("prev")
    \/ navigateMonth("next")
    \/ goToToday
    \/ CalendarLoadEvents

SpecCalendar == InitCalendar /\ [][NextCalendar]_vars

(***************************************************************************)
(* The calendar page over the events found in localStorage.                *)
(***************************************************************************)
InitBuckets ==
    /\ now \in {LocalAt(d, 10, 0) : d \in ClockDays}
    /\ CalendarInit(StoredChoices)
    /\ HomeInit
    /\ FormInit
    /\ ApiIdle
    /\ AuthIdle

NextBuckets ==
    \/ CalendarLoadEvents
    \/ goToToday

SpecBuckets == InitBuckets /\ [][NextBuckets]_vars

(***************************************************************************)
(* Claims about the calendar grid and the day buckets.                     *)
(***************************************************************************)
DigitValue(c) == CHOOSE n \in 0..9 : DigitChar(n) = c

RECURSIVE DigitsValue(_)
DigitsValue(s) ==
    IF s = <<>> THEN 0
    ELSE 10 * DigitsValue(SubSeq(s, 1, Len(s) - 1)) + DigitValue(s[Len(s)])

\* k is the zero-padded YYYY-MM-DD of the local day of date
IsDayKeyOf(k, date) ==
    /\ Len(k) = 10
    /\ k[5] = "-" /\ k[8] = "-"
    /\ DigitsValue(SubSeq(k, 1, 4)) = YearFromDay(LocalDay(date))
    /\ DigitsValue(SubSeq(k, 6, 7)) = MonthFromDay(LocalDay(date)) + 1
    /\ DigitsValue(SubSeq(k, 9, 10)) = DateFromDay(LocalDay(date))

\* the keys of the buckets of `list` that hold event e
BucketsOf(e, list) ==
    LET map == eventsByDate(list)
    IN  {k \in DOMAIN map : \E j \in DOMAIN map[k] : map[k][j] = e}

StartOf(e) == ParseISO(e.starts_at)
EndOf(e) == IF e.ends_at = NULL THEN ParseISO(e.starts_at) ELSE ParseISO(e.ends_at)
IsSingleDay(e) == LocalDay(EndOf(e)) = LocalDay(StartOf(e))

\* C1: the grid of the displayed month starts at the Sunday on or before the
\* 1st, ends at the Saturday on or after the month's last day, holds every
\* day between the two once, in ascending order, at local midnight; so its
\* length is a multiple of 7 and it includes the 1st and the last day.
C1_GridCoversMonth ==
    LET days == calendarDays(currentDate)
        n == Len(days)
        y == getFullYear(currentDate)
        m == getMonth(currentDate)
        InMonth(d) == getFullYear(d) = y /\ getMonth(d) = m
    IN  /\ n > 0 /\ n % 7 = 0
        /\ getDay(days[1]) = 0
        /\ getDay(days[n]) = 6
        /\ \A i \in 1..n : LocalMs(days[i]) = 0
        /\ \A i \in 1..(n - 1) : LocalDay(days[i + 1]) = LocalDay(days[i]) + 1
        /\ \E i \in 1..7 : InMonth(days[i]) /\ getDate(days[i]) = 1
        /\ \E i \in (n - 6)..n :
              /\ InMonth(days[i])
              /\ MonthFromDay(LocalDay(days[i]) + 1) # m

\* a month navigated to whose grid needs six weeks
C1_Witness ==
    /\ currentDate # now
    /\ Len(calendarDays(currentDate)) = 42
    /\ getMonth(currentDate) = 2

\* C2: an event touching N local days is in the bucket of each of them.
C2_EveryTouchedDayBucketed ==
    \A i \in DOMAIN calendarEvents :
        LET e == calendarEvents[i]
        IN  \A day \in LocalDay(StartOf(e))..LocalDay(EndOf(e)) :
                \E k \in BucketsOf(e, calendarEvents) : IsDayKeyOf(k, FromLocal(day, 0))

\* C3: an event without end, or ending on the local day it starts on, is in
\* exactly one bucket, keyed by the zero-padded YYYY-MM-DD of that local day.
C3_SingleDayOneBucket ==
    \A i \in DOMAIN calendarEvents :
        LET e == calendarEvents[i]
            keys == BucketsOf(e, calendarEvents)
        IN  IsSingleDay(e) =>
                /\ Cardinality(keys) = 1
                /\ \A k \in keys : IsDayKeyOf(k, StartOf(e))

\* loaded from storage: an event without end, and one late in the evening
\* whose UTC day is the day after its local day
C3_Witness ==
    /\ Len(calendarEvents) > Len(DEFAULT_EVENTS)
    /\ \E i \in DOMAIN calendarEvents : calendarEvents[i].ends_at = NULL
    /\ \E i \in DOMAIN calendarEvents :
          /\ calendarEvents[i].ends_at # NULL
          /\ IsSingleDay(calendarEvents[i])
          /\ StartOf(calendarEvents[i]).day # LocalDay(StartOf(calendarEvents[i]))

(***************************************************************************)
(* The dashboard with its three filters, at a fixed clock.                 *)
(***************************************************************************)
InitHome ==
    /\ now \in {LocalAt(d, 10, 0) : d \in ClockDays}
    /\ CalendarUnmounted
    /\ HomeInit
    /\ FormInit
    /\ ApiIdle
    /\ AuthIdle

NextHome ==
    \/ \E filter \in Range(timeFilters) : setSelectedTimeFilter(filter)
    \/ \E tag \in Range(tagFilters) : setSelectedTagFilter(tag)
    \/ \E value \in Queries : handleSearchChange(value)
    \/ \E r \in pending, response \in Responses(HomeUniverse) :
          HomeLoadEventsResolve(r, response)

SpecHome == InitHome /\ [][NextHome]_vars

(***************************************************************************)
(* The dashboard's time filter while the clock advances.                   *)
(***************************************************************************)
InitTime ==
    /\ now \in HomeClock
    /\ CalendarUnmounted
    /\ HomeInit
    /\ FormInit
    /\ ApiIdle
    /\ AuthIdle

NextTime ==
    \/ \E filter \in Range(timeFilters) : setSelectedTimeFilter(filter)
    \/ \E r \in pending, response \in Responses(TimeUniverse) :
          HomeLoadEventsResolve(r, response)
    \/ Tick(HomeClock)

SpecTime == InitTime /\ [][NextTime]_vars

(***************************************************************************)
(* Claims about the filters.                                               *)
(***************************************************************************)
shown == filteredEvents(events, searchQuery, selectedTagFilter, selectedTimeFilter, now)

\* instants an event may start at: the days around the clock's days, the day
\* of now's date one month and one year later, at the times of day the
\* filters distinguish
ProbeDays ==
    ((ClockStart - 1)..(ClockStart + ClockSpanDays + 7))
      \cup {MakeDay(getFullYear(now), getMonth(now) + 1, getDate(now)),
            MakeDay(getFullYear(now) + 1, getMonth(now), getDate(now))}

ProbeTimes ==
    {MsOf(0, 0, 0, 0), MsOf(16, 59, 59, 999), MsOf(17, 0, 0, 0), MsOf(19, 0, 0, 0),
     MsOf(23, 59, 59, 999)}

ProbeStarts == {FromLocal(d, t) : d \in ProbeDays, t \in ProbeTimes}

StartingAt(s) ==
    EventRow("p", BrunchSocial, CampusLife, toISOString(s), NULL, InnovationHub, <<"food">>, 0)

\* C4: getUpcomingDay(from, t) is local midnight of the first day on or after
\* from's day whose weekday is t: 0 to 6 days later, and from's own day when
\* from is already on weekday t.
C4_UpcomingOrToday ==
    \A t \in 0..6 :
        LET r == getUpcomingDay(now, t)
        IN  /\ LocalMs(r) = 0
            /\ WeekDay(LocalDay(r)) = t
            /\ LocalDay(r) - LocalDay(now) \in 0..6
            /\ (WeekDay(LocalDay(now)) = t => LocalDay(r) = LocalDay(now))

\* on a Saturday: an event of today is shown under "This Weekend"
C4_Witness ==
    /\ WeekDay(LocalDay(now)) = 6
    /\ selectedTimeFilter = "This Weekend"
    /\ \E i \in DOMAIN shown : LocalDay(StartOf(shown[i])) = LocalDay(now)

SameLetter(a, b) ==
    \/ a = b
    \/ a \in DOMAIN LowerOfUpper /\ LowerOfUpper[a] = b
    \/ b \in DOMAIN LowerOfUpper /\ LowerOfUpper[b] = a
    \/ a \in DOMAIN LowerOfUpper /\ b \in DOMAIN LowerOfUpper /\ LowerOfUpper[a] = LowerOfUpper[b]

\* q occurs in s, letter case ignored
OccursIn(q, s) ==
    \E off \in 0..(Len(s) - Len(q)) : \A j \in 1..Len(q) : SameLetter(q[j], s[off + j])

\* C5: matchesSearchQuery holds for every event when the query is empty, and
\* otherwise exactly when the query occurs, case ignored, in the title or in
\* the club; the location and the tags do not change the result.
C5_SearchTitleOrClub ==
    \A i \in DOMAIN events :
        LET e == events[i]
            q == searchQuery
        IN  /\ matchesSearchQuery(e, q) <=>
                  (q = <<>> \/ OccursIn(q, e.title) \/ OccursIn(q, e.club))
            /\ \A o \in HomeUniverse :
                  matchesSearchQuery([e EXCEPT !.location = o.location, !.tags = o.tags], q)
                      <=> matchesSearchQuery(e, q)

\* "hack" typed: the hackathon is shown, the brunch is not
C5_Witness ==
    /\ searchQuery = <<"h", "a", "c", "k">>
    /\ \E i \in DOMAIN events : events[i].title = BrunchSocial
    /\ Len(shown) > 0
    /\ \A i \in DOMAIN shown : shown[i].title = HackathonKickoff

\* C6: "Today" holds exactly for a start on the local day of now, "Tonight"
\* exactly for such a start at local hour 17 or later, "All" always.
C6_TodayTonight ==
    \A s \in ProbeStarts :
        LET e == StartingAt(s)
            today == LocalDay(s) = LocalDay(now)
        IN  /\ matchesTimeFilter(e, "All", now)
            /\ matchesTimeFilter(e, "Today", now) <=> today
            /\ matchesTimeFilter(e, "Tonight", now) <=>
                  (today /\ LocalMs(s) >= MsOf(17, 0, 0, 0))

\* "Tonight" selected: an evening event of today is shown, a morning one is not
C6_Witness ==
    /\ selectedTimeFilter = "Tonight"
    /\ Len(shown) = 1
    /\ \E i \in DOMAIN events :
          /\ LocalDay(StartOf(events[i])) = LocalDay(now)
          /\ getHours(StartOf(events[i])) < 17

\* the Saturday on or after the local day of now
UpcomingSaturday == CHOOSE d \in LocalDay(now)..(LocalDay(now) + 6) : WeekDay(d) = 6

\* C7: "This Weekend" holds exactly for a start from local midnight of the
\* upcoming Saturday (today on a Saturday) to 23:59:59.999 of the Sunday after
\* it, so every start it accepts is on a Saturday or a Sunday.
C7_ThisWeekend ==
    \A s \in ProbeStarts :
        LET accepted == matchesTimeFilter(StartingAt(s), "This Weekend", now)
        IN  /\ accepted <=>
                  /\ DateLE(FromLocal(UpcomingSaturday, 0), s)
                  /\ DateLE(s, FromLocal(UpcomingSaturday + 1, MsOf(23, 59, 59, 999)))
            /\ accepted => WeekDay(LocalDay(s)) \in {6, 0}

\* "This Weekend" on a weekday: a Sunday event is shown, a Friday one is not
C7_Witness ==
    /\ selectedTimeFilter = "This Weekend"
    /\ WeekDay(LocalDay(now)) \in 1..5
    /\ \E i \in DOMAIN shown : WeekDay(LocalDay(StartOf(shown[i]))) = 0
    /\ Len(shown) < Len(events)

\* the positions of `list` at which P holds, counted up to position i
CountUpTo(list, P(_), i) == Cardinality({j \in 1..i : P(list[j])})

\* C8: filteredEvents is the subsequence, in source order, of the events for
\* which the search, the tag and the time predicate all hold.
C8_FilterIsConjunction ==
    LET P(e) == /\ matchesSearchQuery(e, searchQuery)
                /\ (selectedTagFilter = "All"
                      \/ \E i \in DOMAIN e.tags : e.tags[i] = selectedTagFilter)
                /\ matchesTimeFilter(e, selectedTimeFilter, now)
    IN  /\ Len(shown) = CountUpTo(events, P, Len(events))
        /\ \A i \in DOMAIN events :
              P(events[i]) => shown[CountUpTo(events, P, i)] = events[i]

\* all three filters set, and they keep one event and drop another
C8_Witness ==
    /\ searchQuery # <<>>
    /\ selectedTagFilter # "All"
    /\ selectedTimeFilter # "All"
    /\ Len(shown) = 1
    /\ Len(events) = 2

\* C9: whatever now is, an event starting at 19:00 local time today matches
\* "Today" and "Tonight", and, today being Monday to Friday, not "This Weekend".
C9_SevenPmToday ==
    LET e == StartingAt(FromLocal(LocalDay(now), MsOf(19, 0, 0, 0)))
    IN  /\ matchesTimeFilter(e, "Today", now)
        /\ matchesTimeFilter(e, "Tonight", now)
        /\ WeekDay(LocalDay(now)) \in 1..5 => ~matchesTimeFilter(e, "This Weekend", now)

\* a weekday late in the evening, the 19:00 event of the day loaded: shown
\* under "Tonight"
C9_Witness ==
    /\ WeekDay(LocalDay(now)) \in 1..5
    /\ LocalMs(now) = MsOf(23, 59, 59, 999)
    /\ selectedTimeFilter = "Tonight"
    /\ \E i \in DOMAIN shown :
          StartOf(shown[i]) = FromLocal(LocalDay(now), MsOf(19, 0, 0, 0))

(***************************************************************************)
(* The creation form, filled in and submitted.                             *)
(***************************************************************************)
LocalValue(lday, h, mi) ==
    [y |-> YearFromDay(lday), mo |-> MonthFromDay(lday) + 1, d |-> DateFromDay(lday),
     h |-> h, mi |-> mi]

\* the first start is in the past at the later of the clock's two values
FormStarts == {NULL, LocalValue(ClockStart, 18, 0), LocalValue(ClockStart + 2, 10, 0)}

FormEnds ==
    {NULL, LocalValue(ClockStart, 18, 0), LocalValue(ClockStart + 2, 10, 0),
     LocalValue(ClockStart + 2, 12, 0)}

PostResponses ==
    {[thrown |-> TRUE, ok |-> FALSE], [thrown |-> FALSE, ok |-> FALSE],
     [thrown |-> FALSE, ok |-> TRUE]}

HomeUnmounted ==
    /\ selectedTimeFilter = "All"
    /\ selectedTagFilter = "All"
    /\ searchQuery = <<>>
    /\ events = <<>>
    /\ isLoading = TRUE
    /\ issued = 0
    /\ pending = {}
    /\ answers = NoAnswers

InitForm ==
    /\ now \in {LocalAt(ClockStart, 10, 0), LocalAt(ClockStart + 1, 10, 0)}
    /\ CalendarUnmounted
    /\ HomeUnmounted
    /\ FormInit
    /\ ApiIdle
    /\ AuthIdle

NextForm ==
    \/ \E value \in {<<>>, <<" ">>, <<" ", "A", " ">>} : handleInputChange("title", value)
    \/ \E value \in {<<>>, <<"B">>} : handleInputChange("club", value)
    \/ \E value \in {<<>>, <<"C">>} : handleInputChange("location", value)
    \/ \E value \in FormStarts : handleInputChange("starts_at", value)
    \/ \E value \in FormEnds : handleInputChange("ends_at", value)
    \/ \E i \in 1..MaxFormTags : handleTagToggle(availableTags[i])
    \/ handleSubmit
    \/ \E response \in PostResponses : handleSubmitResolve(response)

SpecForm == InitForm /\ [][NextForm]_vars

\* the form with its attendee field edited, the other fields valid or empty
NextAttendees ==
    \/ \E parsed \in {NaN, [num |-> -3], [num |-> 0], [num |-> 5], [num |-> 12]} :
          handleAttendeesChange(parsed)
    \/ \E value \in {<<>>, <<"A">>} : handleInputChange("title", value)
    \/ handleInputChange("club", <<"B">>)
    \/ handleInputChange("location", <<"C">>)
    \/ handleInputChange("starts_at", LocalValue(ClockStart + 2, 10, 0))
    \/ handleTagToggle(availableTags[1])
    \/ handleSubmit
    \/ \E response \in PostResponses : handleSubmitResolve(response)

SpecAttendees == InitForm /\ [][NextAttendees]_vars

(***************************************************************************)
(* Claims about the creation form.                                         *)
(***************************************************************************)
\* both times are set and the end is not strictly later than the start
EndNotAfterStart(data) ==
    /\ data.starts_at # NULL
    /\ data.ends_at # NULL
    /\ ~DateLT(ParseLocal(data.starts_at), ParseLocal(data.ends_at))

\* C10: a submit of a form whose ends_at is not strictly later than its
\* starts_at records the error of the ends_at field and sends no POST.
C10_EndNotAfterStartRejected ==
    [][(handleSubmit /\ EndNotAfterStart(formData)) =>
          /\ errors'.ends_at = "End time must be after start time"
          /\ request' = NULL
          /\ isSubmitting' = FALSE]_vars

\* submitted with an end equal to the start and every other field valid: the
\* only error is that of ends_at, and nothing was sent
C10_Witness ==
    /\ EndNotAfterStart(formData)
    /\ ParseLocal(formData.ends_at) = ParseLocal(formData.starts_at)
    /\ errors = [NoErrors EXCEPT !.ends_at = "End time must be after start time"]
    /\ request = NULL
    /\ ~isSubmitting

\* a text field that holds nothing but blanks
Blank(s) == \A i \in DOMAIN s : s[i] = " "

\* the fields of the form a submit must refuse
Offending(data, clock) ==
    {f \in {"title", "club", "location"} : Blank(data[f])}
      \cup (IF data.starts_at = NULL \/ DateLT(ParseLocal(data.starts_at), clock)
            THEN {"starts_at"} ELSE {})
      \cup (IF EndNotAfterStart(data) THEN {"ends_at"} ELSE {})
      \cup (IF data.tags = <<>> THEN {"tags"} ELSE {})

\* C11: a submit sends the POST only when no field offends (title, club and
\* location not blank, starts_at set and not in the past, ends_at empty or
\* strictly after starts_at, a tag selected); otherwise nothing is sent,
\* isSubmitting stays false and each offending field has its error.
C11_SubmitOnlyWhenValid ==
    [][handleSubmit =>
          LET bad == Offending(formData, now)
          IN  /\ (request' # NULL) <=> (bad = {})
              /\ isSubmitting' <=> (bad = {})
              /\ \A f \in DOMAIN NoErrors : (errors'[f] # NoError) <=> (f \in bad)]_vars

\* submitted with a title of blanks and no tag, the rest valid: the errors of
\* title and tags are recorded and nothing was sent
C11_Witness ==
    /\ formData.title = <<" ">>
    /\ Offending(formData, now) = {"title", "tags"}
    /\ errors.title = "Event title is required"
    /\ errors.tags = "At least one tag is required"
    /\ errors.club = NoError /\ errors.starts_at = NoError
    /\ request = NULL
    /\ ~isSubmitting

(***************************************************************************)
(* The dashboard's fetches answered by the GET route.                      *)
(***************************************************************************)
\* response.json(): the plain value of a JSON value
Untag(v) ==
    IF "str" \in DOMAIN v THEN v.str
    ELSE IF "iso" \in DOMAIN v THEN v.iso
    ELSE IF "num" \in DOMAIN v THEN v.num
    ELSE IF "arr" \in DOMAIN v THEN v.arr
    ELSE v

ClientRow(row) == [f \in DOMAIN row |-> Untag(row[f])]

\* what fetch and response.json() hand to loadEvents for an answer of the route
ClientResponse(answer) ==
    [thrown |-> FALSE,
     ok |-> answer.status \in 200..299,
     data |-> IF answer.data = NULL THEN NULL
              ELSE [rows |-> [i \in DOMAIN answer.data.rows |->
                                 ClientRow(answer.data.rows[i])]]]

\* fetch('/api/events?status=scheduled') of fetch r reaches the route and is
\* answered; the response is on its way back
FetchServed(r, fault) ==
    /\ r \in pending
    /\ r \notin DOMAIN answers
    /\ \E order \in OrderedByStartsAt(table) :
          LET answer == GET(Str("scheduled"), fault, order)
          IN  /\ exchange' = [method |-> "GET", id |-> NULL, query |-> Str("scheduled"),
                              body |-> NULL, fault |-> fault, status |-> answer.status,
                              data |-> answer.data, error |-> answer.error]
              /\ answers' = (r :> ClientResponse(answer)) @@ answers
    /\ UNCHANGED <<now, configured, table, calendarVars, formVars, authVars>>
    /\ UNCHANGED <<selectedTimeFilter, selectedTagFilter, searchQuery, events, isLoading,
                   issued, pending>>

\* fetch r does not reach the route: fetch rejects, or what comes back is
\* JSON without a data field
FetchFails(r, response) ==
    /\ r \in pending
    /\ r \notin DOMAIN answers
    /\ answers' = (r :> response) @@ answers
    /\ UNCHANGED <<now, apiVars, authVars, calendarVars, formVars>>
    /\ UNCHANGED <<selectedTimeFilter, selectedTagFilter, searchQuery, events, isLoading,
                   issued, pending>>

\* the response of fetch r arrives
FetchResolved(r) ==
    /\ r \in DOMAIN answers
    /\ HomeLoadEventsResolve(r, answers[r])

(***************************************************************************)
(* The API routes, called with bodies of every shape.                      *)
(***************************************************************************)
ApiStart == toISOString(LocalAt(June(28), 10, 0))

FullBody ==
    [title |-> Str(<<"A">>), club |-> Str(<<"B">>), starts_at |-> Iso(ApiStart),
     ends_at |-> Iso(toISOString(LocalAt(June(28), 12, 0))), location |-> Str(<<"C">>),
     tags |-> Arr(<<"tech">>), current_attendees |-> Num(5), creator_id |-> undefined]

\* bodies that lack a required field, or hold it empty
IncompleteBodies ==
    {[FullBody EXCEPT !.title = undefined], [FullBody EXCEPT !.title = Str(<<>>)],
     [FullBody EXCEPT !.club = NULL], [FullBody EXCEPT !.starts_at = undefined],
     [FullBody EXCEPT !.location = Str(<<>>)]}

\* bodies with every required field
CompleteBodies ==
    {FullBody,
     [FullBody EXCEPT !.ends_at = undefined, !.tags = undefined,
                      !.current_attendees = undefined],
     [FullBody EXCEPT !.ends_at = Iso(toISOString(LocalAt(June(28), 9, 0)))],
     [FullBody EXCEPT !.tags = Arr(<<>>)],
     [FullBody EXCEPT !.current_attendees = Num(-3)],
     \* properties the route does not read: a status, an id
     [status |-> Str("cancelled"), id |-> Str(<<"u", "1">>)] @@ FullBody}

Creators == {undefined, Str("ua"), Str("ub")}

PutBodies ==
    {[b EXCEPT !.creator_id = c] :
        b \in {FullBody, [FullBody EXCEPT !.title = undefined],
               [FullBody EXCEPT !.current_attendees = Num(-3)]},
        c \in Creators}

DeleteBodies == {[creator_id |-> c] : c \in Creators}

StatusParams == {NULL, Str("scheduled"), Str("cancelled")}

\* a row of the table, created by user "ua"
SeedRow ==
    [InsertedRow(postEventData(FullBody, LocalAt(ClockStart, 9, 0)), <<"u", "1">>,
                 LocalAt(ClockStart, 9, 0))
        EXCEPT !.creator_id = Str("ua")]

InitApi ==
    /\ now = LocalAt(ClockStart, 10, 0)
    /\ CalendarUnmounted
    /\ HomeUnmounted
    /\ FormInit
    /\ configured \in BOOLEAN
    /\ table = IF configured THEN {SeedRow} ELSE {}
    /\ exchange = NULL
    /\ AuthIdle

\* the collection route: listing and creation
NextApi ==
    \/ \E statusParam \in StatusParams, fault \in StoreFaults : ApiGET(statusParam, fault)
    \/ \E body \in IncompleteBodies \cup CompleteBodies, fault \in StoreFaults :
          ApiPOST(body, fault)

SpecApi == InitApi /\ [][NextApi]_vars

\* the item route: update and removal
NextItem ==
    \/ \E id \in Uuids, body \in PutBodies, fault \in StoreFaults : ApiPUT(id, body, fault)
    \/ \E id \in Uuids, body \in DeleteBodies, fault \in StoreFaults :
          ApiDELETE(id, body, fault)

SpecItem == InitApi /\ [][NextItem]_vars

\* the dashboard listing behind the GET route
CancelledRow ==
    [SeedRow EXCEPT !.id = Str(<<"u", "2">>), !.status = Str("cancelled"),
                    !.title = Str(<<"Z">>),
                    !.starts_at = Iso(toISOString(LocalAt(June(27), 10, 0)))]

TransportFailures ==
    {[thrown |-> TRUE, ok |-> FALSE, data |-> NULL],
     [thrown |-> FALSE, ok |-> TRUE, data |-> NULL]}

FetchFaults == {NoFault, [call |-> 1, message |-> "connection refused"]}

\* an event created while the dashboard is open, starting after the seed row
LaterBody == [FullBody EXCEPT !.starts_at = Iso(toISOString(LocalAt(June(29), 10, 0))),
                              !.ends_at = undefined]

InitFetch ==
    /\ now = LocalAt(ClockStart, 10, 0)
    /\ CalendarUnmounted
    /\ HomeInit
    /\ FormInit
    /\ configured = TRUE
    /\ table = {SeedRow}
    /\ exchange = NULL
    /\ AuthIdle

\* the dashboard refreshing (mount, focus, visibility) while events are created
NextFetch ==
    \/ HomeLoadEventsStart
    \/ \E r \in 1..(MaxFetches + 1), fault \in FetchFaults : FetchServed(r, fault)
    \/ \E r \in 1..(MaxFetches + 1), response \in TransportFailures : FetchFails(r, response)
    \/ \E r \in 1..(MaxFetches + 1) : FetchResolved(r)
    \/ ApiPOST(LaterBody, NoFault)

SpecFetch == InitFetch /\ [][NextFetch]_vars

InitListing ==
    /\ now = LocalAt(ClockStart, 10, 0)
    /\ CalendarUnmounted
    /\ HomeInit
    /\ FormInit
    /\ configured \in BOOLEAN
    /\ table \in IF configured THEN {{SeedRow}, {SeedRow, CancelledRow}} ELSE {{}}
    /\ exchange = NULL
    /\ AuthIdle

\* the dashboard listing a table with rows of several statuses, other clients
\* listing too
NextListing ==
    \/ HomeLoadEventsStart
    \/ \E r \in 1..(MaxFetches + 1) : FetchServed(r, NoFault)
    \/ \E r \in 1..(MaxFetches + 1) : FetchResolved(r)
    \/ \E tag \in {"All", "tech"} : setSelectedTagFilter(tag)
    \/ \E statusParam \in StatusParams \cup {Str("")}, fault \in {NoFault} :
          ApiGET(statusParam, fault)

SpecListing == InitListing /\ [][NextListing]_vars

(***************************************************************************)
(* An event created through the form: the form's POST answered by the      *)
(* route, the dashboard mounted by router.push("/"), the calendar page     *)
(* open beside them.                                                       *)
(***************************************************************************)
\* JSON.stringify(eventData), parsed again by request.json()
JsonBody(data) ==
    [title |-> Str(data.title),
     club |-> Str(data.club),
     starts_at |-> Iso(data.starts_at),
     ends_at |-> IF data.ends_at = NULL THEN NULL ELSE Iso(data.ends_at),
     location |-> Str(data.location),
     tags |-> Arr(data.tags),
     current_attendees |-> Num(data.current_attendees)]

\* the form's fetch('/api/events', { method: 'POST', ... }) reaches the
\* route and is answered; the response is on its way back
PostServed(fault) ==
    /\ request # NULL
    /\ reply = NULL
    /\ \E uuid \in Uuids :
          LET body == JsonBody(request)
              answer == POST(body, fault, uuid)
          IN  /\ RowsWithId(uuid) = {}
              /\ exchange' = [method |-> "POST", id |-> NULL, query |-> NULL, body |-> body,
                              fault |-> fault, status |-> answer.status,
                              data |-> answer.data, error |-> answer.error]
              /\ table' = answer.table
              /\ reply' = [thrown |-> FALSE, ok |-> answer.status \in 200..299]
    /\ UNCHANGED <<now, configured, formData, errors, isSubmitting, request, route>>
    /\ UNCHANGED <<calendarVars, homeVars, authVars>>

\* the form's fetch rejects (the route is not reached)
PostFails ==
    /\ request # NULL
    /\ reply = NULL
    /\ reply' = [thrown |-> TRUE, ok |-> FALSE]
    /\ UNCHANGED <<now, formData, errors, isSubmitting, request, route>>
    /\ UNCHANGED <<calendarVars, homeVars, apiVars, authVars>>

\* the response to the form's POST arrives
PostResolved ==
    /\ reply # NULL
    /\ handleSubmitResolve(reply)

\* router.push("/") has mounted the dashboard: its effect calls loadEvents,
\* and so do focus and visibility events later
HomeRefresh ==
    /\ route = "/"
    /\ HomeLoadEventsStart

CreateFaults ==
    {NoFault, [call |-> 1, message |-> "connection refused"],
     [call |-> 1, message |-> "JWT expired"]}

InitCreate ==
    /\ now = LocalAt(ClockStart, 10, 0)
    /\ CalendarInit({NULL, [json |-> <<CHOOSE e \in StoredUniverse : e.id = "102">>]})
    /\ HomeUnmounted
    /\ FormInit
    /\ configured \in BOOLEAN
    /\ table = IF configured THEN {SeedRow} ELSE {}
    /\ exchange = NULL
    /\ AuthIdle

NextCreate ==
    \/ \E value \in {<<>>, <<"A">>} : handleInputChange("title", value)
    \/ handleInputChange("club", <<"B">>)
    \/ handleInputChange("location", <<"C">>)
    \/ handleInputChange("starts_at", LocalValue(ClockStart + 3, 10, 0))
    \/ handleTagToggle(availableTags[1])
    \/ handleSubmit
    \/ \E fault \in CreateFaults : PostServed(fault)
    \/ PostFails
    \/ PostResolved
    \/ HomeRefresh
    \/ \E r \in 1..(MaxFetches + 1) : FetchServed(r, NoFault)
    \/ \E r \in 1..(MaxFetches + 1) : FetchResolved(r)
    \/ CalendarLoadEvents

SpecCreate == InitCreate /\ [][NextCreate]_vars

(***************************************************************************)
(* Claims about the API routes.                                            *)
(***************************************************************************)
\* a property the body lacks, or holds as null or as the empty string
Lacks(body, f) == body[f] \in {undefined, NULL, Str(<<>>)}

LacksRequired(body) == \E f \in {"title", "club", "starts_at", "location"} : Lacks(body, f)

\* C12: a POST whose body lacks title, club, starts_at or location (or holds
\* it empty) is answered 400 with an error and adds no row, with or without
\* a configured backend.
C12_IncompletePostIs400 ==
    [][(exchange' # NULL /\ exchange'.method = "POST" /\ LacksRequired(exchange'.body)) =>
              /\ exchange'.status = 400
              /\ exchange'.error # NoError
              /\ exchange'.data = NULL
              /\ table' = table]_vars

\* no backend configured, a POST without a title: answered 400
C12_Witness ==
    /\ ~configured
    /\ exchange # NULL
    /\ exchange.method = "POST"
    /\ Lacks(exchange.body, "title")
    /\ exchange.status = 400

\* the backend is not configured, or the store says so on its first call
Degraded(fault) ==
    \/ ~configured
    \/ fault.call = 1 /\ fault.message \in {"Invalid API key", "JWT expired"}

\* the decimal text `s` is that of the clock's milliseconds since the epoch
IsEpochMsOf(s, clock) ==
    /\ Len(s) > 3
    /\ DigitsValue(SubSeq(s, 1, Len(s) - 3)) = clock.day * 86400 + clock.ms \div 1000
    /\ DigitsValue(SubSeq(s, Len(s) - 2, Len(s))) = clock.ms % 1000

\* C14: without a configured backend (isSupabaseConfigured() false, or the
\* store reporting an invalid key or JWT), GET answers 200 with the empty
\* list, and a POST with every required field answers 201 with a record of
\* the request's fields and an id made of the current timestamp; neither
\* answers with an error.
C14_DegradedAnswers ==
    [][(exchange' # NULL /\ Degraded(exchange'.fault)) =>
          /\ exchange'.method = "GET" =>
                /\ exchange'.status = 200
                /\ exchange'.data = [rows |-> <<>>]
                /\ exchange'.error = NoError
          /\ (exchange'.method = "POST" /\ ~LacksRequired(exchange'.body)) =>
                /\ exchange'.status = 201
                /\ exchange'.error = NoError
                /\ \A f \in {"title", "club", "starts_at", "location"} :
                      exchange'.data[f] = exchange'.body[f]
                /\ exchange'.data.status = Str("scheduled")
                /\ IsEpochMsOf(exchange'.data.id.str, now)
                /\ table' = table]_vars

\* the store refuses the key: the POST is answered 201 with a record whose id
\* is not one of the table's, and the table has not grown
C14_Witness ==
    /\ configured
    /\ exchange # NULL
    /\ exchange.fault.message = "Invalid API key"
    /\ exchange.method = "POST"
    /\ exchange.status = 201
    /\ exchange.data.id.str \notin Uuids
    /\ table = {SeedRow}

EndsOk(r) ==
    \/ r.ends_at = NULL
    \/ "iso" \in DOMAIN r.ends_at
          /\ DateLT(ParseISO(r.starts_at.iso), ParseISO(r.ends_at.iso))

\* the last request was a creation or an update, and it was accepted
Accepted ==
    /\ exchange # NULL
    /\ exchange.method \in {"POST", "PUT"}
    /\ exchange.status \in {200, 201}

\* C17: every event a creation or update path accepts (the form's request,
\* the record POST or PUT answers with, the rows of the table) has ends_at
\* null or strictly later than starts_at.
C17_EndsAfterStart ==
    /\ request # NULL =>
          \/ request.ends_at = NULL
          \/ DateLT(ParseISO(request.starts_at), ParseISO(request.ends_at))
    /\ Accepted => EndsOk(exchange.data)
    /\ \A r \in table : EndsOk(r)

\* C18: current_attendees is a non-negative integer in the form's state and
\* in every record POST or PUT accepts.
C18_AttendeesNonNegative ==
    /\ formData.current_attendees \in Nat
    /\ Accepted =>
          /\ "num" \in DOMAIN exchange.data.current_attendees
          /\ exchange.data.current_attendees.num \in Nat
    /\ \A r \in table : r.current_attendees.num \in Nat

\* C19: every event the creation paths accept (the form's request, the
\* record POST answers with, the rows POST adds) has at least one tag.
C19_TagsNonEmpty ==
    /\ request # NULL => request.tags # <<>>
    /\ (Accepted /\ exchange.method = "POST") => exchange.data.tags.arr # <<>>
    /\ \A r \in table : r.tags.arr # <<>>

\* C13: PUT and DELETE change or remove an event only for the creator stored
\* with it: without creator_id the answer is 401, with another creator's id
\* 403, for an id the table does not hold 404, and in these three cases no
\* row changes and no record is answered.  (Stated for requests the store
\* answers without a fault, and for PUT bodies with every required field.)
C13_OnlyCreatorChanges ==
    [][(/\ exchange' # NULL
        /\ exchange'.method \in {"PUT", "DELETE"}
        /\ exchange'.fault = NoFault
        /\ ~(exchange'.method = "PUT" /\ LacksRequired(exchange'.body))) =>
          LET anonymous == Lacks(exchange'.body, "creator_id")
              rows == {r \in table : r.id = exchange'.id}
              foreign == \E r \in rows : r.creator_id # exchange'.body.creator_id
          IN  /\ anonymous => exchange'.status = 401
              /\ (~anonymous /\ rows = {}) => exchange'.status = 404
              /\ (~anonymous /\ foreign) => exchange'.status = 403
              /\ (anonymous \/ rows = {} \/ foreign) =>
                    /\ table' = table
                    /\ exchange'.data = NULL]_vars

(***************************************************************************)
(* Claims about the dashboard's fetches.                                   *)
(***************************************************************************)
\* the response is a failure: fetch or json() threw, the status is not 2xx,
\* or the body has no data
Failed(response) == response.thrown \/ ~response.ok \/ response.data = NULL

\* C15: when a dashboard fetch fails (non-ok response, response without
\* data, thrown error) the event list becomes empty, whatever it held, and
\* isLoading is false when that fetch ends.
C15_FailedFetchEmptiesList ==
    [][\A r \in DOMAIN answers :
          (FetchResolved(r) /\ Failed(answers[r])) =>
              /\ events' = <<>>
              /\ isLoading' = FALSE]_vars

\* two fetches, both resolved; the route's last answer was a list with the
\* seed row, yet the list is empty: the failed fetch resolved after the
\* successful one and emptied the list it had filled
C15_Witness ==
    /\ issued = 2
    /\ pending = {}
    /\ exchange # NULL
    /\ exchange.method = "GET"
    /\ exchange.status = 200
    /\ Len(exchange.data.rows) > 0
    /\ events = <<>>
    /\ ~isLoading

\* C16: overlapping fetches are not cancelled and every response overwrites
\* the list when it resolves, also the response of a fetch started before
\* one that has already resolved; so when all have resolved the list is the
\* payload of the response that resolved last.
C16_LastResolvedWins ==
    [][\A r \in DOMAIN answers :
          FetchResolved(r) =>
              /\ events' = IF Failed(answers[r]) THEN <<>> ELSE answers[r].data.rows
              /\ pending' = pending \ {r}
              /\ answers' = Without(answers, r)]_vars

\* two fetches, both resolved, no event created since the route's last
\* answer, which listed two events; the list shows one: the older payload
\* resolved last and overwrote the newer one
C16_Witness ==
    /\ issued = 2
    /\ pending = {}
    /\ exchange # NULL
    /\ exchange.method = "GET"
    /\ exchange.status = 200
    /\ Len(exchange.data.rows) = 2
    /\ Len(events) = 1
    /\ Cardinality(table) = 2

\* the status a GET asked for: scheduled when the parameter is absent or empty
Requested(query) == IF query \in {NULL, Str("")} THEN Str("scheduled") ELSE query

\* C20: the dashboard never lists an event whose status is not scheduled: it
\* asks for status=scheduled, and GET answers only rows of the status asked
\* for, scheduled when none is given.
C20_OnlyScheduledListed ==
    /\ \A i \in DOMAIN events :
          /\ events[i].status = "scheduled"
          /\ \E row \in table : row.id.str = events[i].id /\ row.status = Str("scheduled")
    /\ \A i \in DOMAIN shown : shown[i].status = "scheduled"
    /\ \A r \in DOMAIN answers :
          answers[r].data # NULL =>
              \A i \in DOMAIN answers[r].data.rows :
                  answers[r].data.rows[i].status = "scheduled"
    /\ (exchange # NULL /\ exchange.method = "GET" /\ exchange.status = 200) =>
          \A i \in DOMAIN exchange.data.rows :
              exchange.data.rows[i].status = Requested(exchange.query)

\* the table holds a cancelled event; the dashboard has loaded and lists the
\* scheduled one only
C20_Witness ==
    /\ CancelledRow \in table
    /\ pending = {}
    /\ Len(events) = 1
    /\ events[1].id = SeedRow.id.str
    /\ Len(shown) = 1

(***************************************************************************)
(* Claims about the records POST creates.                                  *)
(***************************************************************************)
\* the last request was a POST answered with a record
Created(x) == x # NULL /\ x.method = "POST" /\ x.status = 201

\* C21: every record POST creates (the record it answers with, the row it
\* adds to the table) has status scheduled, whatever status or other
\* property of its own the request body carries.
C21_CreatedIsScheduled ==
    [][Created(exchange') =>
          /\ exchange'.data.status = Str("scheduled")
          /\ \A row \in table' \ table : row.status = Str("scheduled")]_vars

\* a body asking for status cancelled and naming an id: the row added is
\* scheduled and has an id of the table's own
C21_Witness ==
    /\ Created(exchange)
    /\ "status" \in DOMAIN exchange.body
    /\ exchange.body.status = Str("cancelled")
    /\ exchange.data.status = Str("scheduled")
    /\ exchange.data \in table
    /\ exchange.data.id # exchange.body.id

\* C24: a record POST answers with has an id different from the id of every
\* other record POST has answered with, also when both were made up without
\* a backend at the same reading of the clock.  (Stated for two creations
\* that follow one another.)
C24_ReturnedIdsDistinct ==
    [][(Created(exchange) /\ Created(exchange') /\ exchange' # exchange) =>
          exchange'.data.id # exchange.data.id]_vars

(***************************************************************************)
(* Claims about a creation through the form.                               *)
(***************************************************************************)
\* C22: when the form's POST fails (a response that is not ok, a thrown
\* error) the form stays as it is: formData and the errors are unchanged,
\* isSubmitting is false again, no request is in flight (no retry), the
\* route is still the form's; the route becomes "/" only on an ok response.
C22_FailedPostLeavesForm ==
    [][/\ (PostResolved /\ (reply.thrown \/ ~reply.ok)) =>
              /\ formData' = formData
              /\ errors' = errors
              /\ isSubmitting' = FALSE
              /\ request' = NULL
              /\ reply' = NULL
              /\ route' = "create"
              /\ UNCHANGED apiVars
       /\ (route = "create" /\ route' = "/") =>
              /\ reply # NULL
              /\ ~reply.thrown
              /\ reply.ok]_vars

\* the route answered the form's POST with 500, the answer has been handled:
\* the form is still shown with what was entered, and can be submitted again
C22_Witness ==
    /\ exchange # NULL
    /\ exchange.method = "POST"
    /\ exchange.status = 500
    /\ reply = NULL
    /\ request = NULL
    /\ ~isSubmitting
    /\ route = "create"
    /\ formData.title = <<"A">>
    /\ validateForm(formData, now)

\* the event of table row `row` is in the list
Listed(row, list) == \E i \in DOMAIN list : list[i].id = row.id.str

\* the event of table row `row` (an event with its title, club and start) is
\* in the bucket of its local start day
InStartDayBucket(row, list) ==
    LET map == eventsByDate(list)
    IN  \E k \in DOMAIN map :
            /\ IsDayKeyOf(k, ParseISO(row.starts_at.iso))
            /\ \E j \in DOMAIN map[k] :
                  /\ map[k][j].title = row.title.str
                  /\ map[k][j].club = row.club.str
                  /\ map[k][j].starts_at = row.starts_at.iso

\* C23: an event the form has created in the table of a configured backend
\* is read by both views at their next refresh: a dashboard fetch answered
\* without fault lists it and the list becomes that answer when the fetch
\* resolves, and the calendar's loadEvents puts it in the bucket of its
\* start day.
C23_CreatedIsReadByBothViews ==
    [][/\ \A r \in pending :
              FetchServed(r, NoFault) =>
                  \A row \in table : Listed(row, answers'[r].data.rows)
       /\ \A r \in DOMAIN answers :
              (FetchResolved(r) /\ ~Failed(answers[r])) => events' = answers[r].data.rows
       /\ CalendarLoadEvents =>
              \A row \in table \ {SeedRow} : InStartDayBucket(row, calendarEvents')]_vars

(***************************************************************************)
(* Authentication, called with passwords of every shape.                   *)
(***************************************************************************)
\* NEXT_PUBLIC_EVENT_PASSWORDS: unset, empty, separators and blanks only,
\* one password, two passwords with blanks around them, an empty entry
EnvChoices ==
    {undefined, Str(<<>>), Str(<<" ", ",", " ">>), Str(<<"a">>),
     Str(<<" ", "a", " ", ",", "b">>), Str(<<"a", ",", ",", "b", " ">>)}

PasswordChoices ==
    {<<>>, <<" ">>, <<"a">>, <<" ", "a", " ">>, <<"b">>, <<"c">>, <<"a", ",", "b">>}

\* what localStorage may hold when the page is opened: nothing, what an
\* earlier visit left, or values not written by this module
StorageChoices ==
    {[ptk_event_auth |-> f, ptk_user_id |-> u] :
        f \in {NULL, Str(<<"t", "r", "u", "e">>), Str(<<"n", "o">>)},
        u \in {NULL, Str(hashPassword(<<"a">>)), Str(<<>>)}}

\* ids of event creators
CreatorIdChoices ==
    {NULL, undefined, Str(<<>>)} \cup {Str(hashPassword(p)) : p \in PasswordChoices}

InitAuth ==
    /\ now = LocalAt(ClockStart, 10, 0)
    /\ CalendarUnmounted
    /\ HomeUnmounted
    /\ FormInit
    /\ ApiIdle
    /\ eventPasswords \in EnvChoices
    /\ authStorage \in {NoWindow} \cup StorageChoices
    /\ authCalls = {}
    /\ authReturned = NULL

NextAuth ==
    \/ \E password \in PasswordChoices : authenticate(password)
    \/ \E password \in PasswordChoices : authenticateResolve(password)
    \/ logout

SpecAuth == InitAuth /\ [][NextAuth]_vars

\* a visit of the browser that starts with nothing stored
InitSession ==
    /\ now = LocalAt(ClockStart, 10, 0)
    /\ CalendarUnmounted
    /\ HomeUnmounted
    /\ FormInit
    /\ ApiIdle
    /\ eventPasswords \in EnvChoices
    /\ authStorage = EmptyStorage
    /\ authCalls = {}
    /\ authReturned = NULL

SpecSession == InitSession /\ [][NextAuth]_vars

(***************************************************************************)
(* Claims about authentication.                                            *)
(***************************************************************************)
\* s without the blanks at its two ends
Stripped(s) ==
    IF Blank(s) THEN <<>>
    ELSE LET first == CHOOSE i \in DOMAIN s : s[i] # " " /\ \A j \in 1..(i - 1) : s[j] = " "
             last == CHOOSE i \in DOMAIN s : s[i] # " " /\ \A j \in (i + 1)..Len(s) : s[j] = " "
         IN  SubSeq(s, first, last)

\* the configured passwords: the entries of the comma-separated text that
\* are not blank
Configured ==
    IF eventPasswords = undefined THEN {}
    ELSE LET text == eventPasswords.str
             Entry(i, j) ==
                 /\ \A k \in i..j : text[k] # ","
                 /\ i = 1 \/ text[i - 1] = ","
                 /\ j = Len(text) \/ text[j + 1] = ","
         IN  {e \in {SubSeq(text, i, j) : i, j \in DOMAIN text} : 
                 /\ ~Blank(e)
                 /\ \E i, j \in DOMAIN text : i <= j /\ Entry(i, j) /\ e = SubSeq(text, i, j)}

Present(value) == value # NULL

\* C29: in the browser, whatever authenticate and logout calls were made and
\* however they interleave, the auth flag and the user id are stored
\* together or not at all, so isAuthenticated() implies a user id that is
\* not null; an authenticate call that returns false changes neither, and
\* after logout both are absent.
C29_FlagAndUserIdTogether ==
    /\ [](/\ Present(authStorage.ptk_event_auth) <=> Present(authStorage.ptk_user_id)
          /\ isAuthenticated => getCurrentUserId # NULL)
    /\ [][/\ (authReturned' # authReturned /\ ~authReturned'.result) =>
                 authStorage' = authStorage
          /\ logout =>
                 /\ ~Present(authStorage'.ptk_event_auth)
                 /\ ~Present(authStorage'.ptk_user_id)]_vars

\* logged out while a second authenticate call was awaiting its hash: both
\* keys are absent although a call has returned true and another will
C29_Witness ==
    /\ authReturned # NULL
    /\ authReturned.result
    /\ authCalls # {}
    /\ authStorage = EmptyStorage

(***************************************************************************)
(* Claims about the order within a day bucket and about the month shown.   *)
(***************************************************************************)
\* C26: every day bucket holds the events of the list that start on its
\* local day, in the order they have in the list, whatever their times.
C26_BucketKeepsListOrder ==
    LET map == eventsByDate(calendarEvents)
    IN  \A k \in DOMAIN map :
            LET at == {i \in DOMAIN calendarEvents : IsDayKeyOf(k, StartOf(calendarEvents[i]))}
                Nth(n) == CHOOSE i \in at : Cardinality({j \in at : j < i}) = n - 1
            IN  /\ Len(map[k]) = Cardinality(at)
                /\ \A n \in DOMAIN map[k] : map[k][n] = calendarEvents[Nth(n)]

\* loaded from storage: two events of one local day, the later one first
C26_Witness ==
    /\ Len(calendarEvents) > Len(DEFAULT_EVENTS)
    /\ \E i, j \in DOMAIN calendarEvents :
          /\ i < j
          /\ LocalDay(StartOf(calendarEvents[i])) = LocalDay(StartOf(calendarEvents[j]))
          /\ DateLT(StartOf(calendarEvents[j]), StartOf(calendarEvents[i]))

\* the months since year 0 of the month the date lies in
MonthIndex(d) == getFullYear(d) * 12 + getMonth(d)

\* C27: whatever the current date, navigateMonth("next") shows the month
\* after the one shown and navigateMonth("prev") the month before it, so
\* one after the other shows the original month again.
C27_NavigateByOneMonth ==
    [][/\ navigateMonth("next") => MonthIndex(currentDate') = MonthIndex(currentDate) + 1
       /\ navigateMonth("prev") => MonthIndex(currentDate') = MonthIndex(currentDate) - 1]_vars

(***************************************************************************)
(* Claims about the dashboard's loading indicator and its weekend filter.  *)
(***************************************************************************)
\* C28: however the fetches started by mount, visibility and focus overlap,
\* isLoading is true in every state in which a fetch is in flight and false
\* in every state in which none is.
C28_LoadingWhileInFlight == isLoading <=> (pending # {})

\* C30: when now is on a Sunday, "This Weekend" holds exactly for the starts
\* on the Saturday six days ahead and on the Sunday seven days ahead; an
\* event starting on this very Sunday matches "Today" and not "This Weekend".
C30_SundayWeekendIsNextWeek ==
    WeekDay(LocalDay(now)) = 0 =>
        \A s \in ProbeStarts :
            LET e == StartingAt(s)
                ahead == LocalDay(s) - LocalDay(now)
            IN  /\ matchesTimeFilter(e, "This Weekend", now) <=> ahead \in {6, 7}
                /\ ahead = 0 =>
                      /\ matchesTimeFilter(e, "Today", now)
                      /\ ~matchesTimeFilter(e, "This Weekend", now)

\* a Sunday, "This Weekend" selected: the event that starts tonight is
\* loaded and is not shown
C30_Witness ==
    /\ WeekDay(LocalDay(now)) = 0
    /\ selectedTimeFilter = "This Weekend"
    /\ \E i \in DOMAIN events : LocalDay(StartOf(events[i])) = LocalDay(now)
    /\ \A i \in DOMAIN shown : LocalDay(StartOf(shown[i])) # LocalDay(now)

====
